---- MODULE Spec2Model ----
(***************************************************************************)
(* Model of the continuous development loop of deep-claude:                *)
(*   internal/orchestrator  Orchestrator.Run, checkStopConditions,         *)
(*                          runIteration                                   *)
(*   internal/github        GetPRStatus, WaitForChecks, hasStatusChanged   *)
(*   internal/git           PushWithRetry                                  *)
(*   internal/claude        ContainsCompletionSignal                       *)
(*   internal/config        Validate, HasMaxRuns/HasMaxCost/HasMaxDuration *)
(*                                                                         *)
(* Strings are sequences of one-character strings.  Money is counted in    *)
(* whole cost units and time in poll intervals (one tick = the 10 s sleep  *)
(* of WaitForChecks); the clock advances while the agent runs and while    *)
(* WaitForChecks sleeps.                                                   *)
(***************************************************************************)
EXTENDS Integers, Sequences, FiniteSets, TLC

VARIABLES
    config,                 \* Orchestrator.config (immutable during Run)
    iteration,              \* Orchestrator.iteration
    started,                \* number of runIteration calls made by Run
    totalCost,              \* Orchestrator.totalCost
    completionSignalCount,  \* Orchestrator.completionSignalCount
    now,                    \* time.Since(o.startTime), in ticks
    pc,                     \* position of the single thread of control
    stopReason,             \* reason returned by the last checkStopConditions
    iterErr,                \* error returned by the last runIteration ("" = nil)
    curBranch,              \* branch the working copy is on
    ops,                    \* external operations of the current iteration
    outputs,                \* agent outputs of this run, oldest first
    branchedFrom,           \* branch the last CreateBranch started from
    push,                   \* PushWithRetry: i, backoff, attempts and sleeps
    deadline,               \* WaitForChecks: deadline
    lastStatus,             \* WaitForChecks: lastStatus (<<>> = nil)
    status,                 \* runIteration: status returned by WaitForChecks
    waitErr,                \* err returned by this iteration's WaitForChecks
    callbacks,              \* WaitForChecks: onStatusChange invocations
    summary,                \* arguments of the ui.Summary calls made so far
    result,                 \* Result of the claude.Run just made (<<>> = none)
    notesFile,              \* the notes file, where it is followed (<<>> = absent)
    fnIn,                   \* input of the function under test
    fnOut                   \* its result

vars == <<config, iteration, started, totalCost, completionSignalCount, now, pc,
          stopReason, iterErr, curBranch, branchedFrom, ops, outputs, push,
          deadline, lastStatus, status, waitErr, callbacks, summary, result,
          notesFile, fnIn, fnOut>>

----------------------------------------------------------------------------
(* Bounds of the model *)

MaxRunsBound == 2        \* largest iteration ceiling explored
MaxCostDelta == 1        \* largest cost one agent invocation reports
MaxWaitTicks == 2        \* WaitForChecks timeout, in poll intervals
MaxStrLen == 3           \* longest agent output explored
MaxStopValue == 4        \* largest counter value given to checkStopConditions

MaxPushRetries == 2      \* largest maxRetries given to PushWithRetry on its own
MaxLimit == 1            \* largest limit given to Validate on its own
MaxPromptLen == 2        \* longest goal and notes given to BuildPrompt on its own
MaxPromptIter == 11      \* largest iteration index given to BuildPrompt on its own
MaxDurLen == 3           \* longest text given to ParseDuration on its own
MaxDurSeconds == 3700    \* longest duration given to FormatDuration, in seconds
MaxNameIter == 10        \* most branch names generated in one run of the naming steps
MaxChecks == 2           \* most checks on a pull request given to GetPRStatus

\* The loop is cut off after this many cycles when no ceiling stops it.
MaxIter == MaxRunsBound

----------------------------------------------------------------------------
(* Strings *)

Chars == {"a", "A", "b"}

Phrase == <<"a", "b">>

RECURSIVE StringsUpTo(_)
StringsUpTo(n) ==
    IF n = 0 THEN {<<>>}
    ELSE LET shorter == StringsUpTo(n - 1)
         IN  shorter \cup {Append(s, c) : s \in {t \in shorter : Len(t) = n - 1}, c \in Chars}

\* strings.Index: position of the first occurrence scanning from the left,
\* 0-based, -1 when absent; the empty substring is found at 0.
RECURSIVE IndexFrom(_, _, _)
IndexFrom(s, substr, i) ==
    IF Len(substr) = 0 THEN 0
    ELSE IF i + Len(substr) > Len(s) THEN -1
    ELSE IF SubSeq(s, i + 1, i + Len(substr)) = substr THEN i
    ELSE IndexFrom(s, substr, i + 1)

Contains(s, substr) == IndexFrom(s, substr, 0) >= 0

ContainsCompletionSignalNoGuard(output, signal) == Contains(output, signal)

ContainsCompletionSignal(output, signal) ==
    IF signal = <<>> THEN FALSE
    ELSE Contains(output, signal)

Digits == <<"0", "1", "2", "3", "4", "5", "6", "7", "8", "9">>

\* fmt.Sprintf("%d", n) for n >= 0.
RECURSIVE Itoa(_)
Itoa(n) ==
    IF n < 10 THEN <<Digits[n + 1]>>
    ELSE Append(Itoa(n \div 10), Digits[(n % 10) + 1])

\* The texts BuildPrompt writes, one element per run of literal text (the
\* backquotes of the Go text are written as apostrophes).
PromptPreamble ==
    <<"## CONTINUOUS WORKFLOW CONTEXT\n\n",
      "This is part of a **continuous development loop** - you are one runner in a relay race.\n",
      "Your work will be committed, reviewed via PR, and then the next iteration will continue from where you left off.\n\n",
      "**Key Points:**\n",
      "- You are iteration #">>

PromptKeyPoints ==
    <<"\n",
      "- Focus on making incremental progress - you don't need to complete everything in one go\n",
      "- Your changes will be committed and a PR created automatically\n",
      "- The next iteration will continue your work based on the notes you leave\n\n">>

PromptSignalLead ==
    <<"**Project Completion Signal**: If you believe the ENTIRE project goal has been fully achieved ",
      "and no more iterations are needed, include this exact phrase in your response: \"">>

PromptSignalClose == <<"\"\n\n">>

PromptGoalLead == <<"---\n\n", "## PRIMARY GOAL\n\n">>

PromptGoalClose == <<"\n\n">>

PromptNotesLead ==
    <<"---\n\n",
      "## CONTEXT FROM PREVIOUS ITERATION\n\n",
      "The following is from SHARED_TASK_NOTES.md - these are notes left by the previous iteration:\n\n",
      "'''\n">>

PromptNotesClose == <<"\n'''\n\n">>

PromptClosing ==
    <<"---\n\n",
      "## ITERATION NOTES\n\n",
      "Before completing your work, update the 'SHARED_TASK_NOTES.md' file with:\n",
      "1. What you accomplished this iteration\n",
      "2. What the next iteration should focus on\n",
      "3. Any important context or decisions made\n",
      "4. Known issues or blockers\n\n",
      "**Keep notes concise and actionable** - no verbose logs, just key information for the next iteration.\n">>

BuildPromptAlwaysNotes(userPrompt, notesContent, completionSignal, n) ==
    PromptPreamble \o Itoa(n) \o PromptKeyPoints
        \o (IF completionSignal # <<>>
                THEN PromptSignalLead \o completionSignal \o PromptSignalClose
                ELSE <<>>)
        \o PromptGoalLead \o userPrompt \o PromptGoalClose
        \o PromptNotesLead \o notesContent \o PromptNotesClose
        \o PromptClosing

\* claude.BuildPrompt: the text handed to the agent, as the sequence of the
\* pieces written to the strings.Builder.
BuildPrompt(userPrompt, notesContent, completionSignal, n) ==
    PromptPreamble \o Itoa(n) \o PromptKeyPoints
        \o (IF completionSignal # <<>>
                THEN PromptSignalLead \o completionSignal \o PromptSignalClose
                ELSE <<>>)
        \o PromptGoalLead \o userPrompt \o PromptGoalClose
        \o (IF notesContent # <<>>
                THEN PromptNotesLead \o notesContent \o PromptNotesClose
                ELSE <<>>)
        \o PromptClosing

----------------------------------------------------------------------------
(* Configuration *)

HasMaxRuns(c) == c.MaxRuns > 0

\* MaxCost is a float64 and --max-cost accepts every text strconv.ParseFloat
\* accepts, "NaN" included.  NaN stands for that value: it is unordered, so
\* ==, < and > are all false on it.
NaN == 0 - 1000

FloatEq(a, b) == a # NaN /\ b # NaN /\ a = b

FloatLt(a, b) == a # NaN /\ b # NaN /\ a < b

HasMaxCost(c) == FloatLt(0, c.MaxCost)

HasMaxDuration(c) == c.MaxDuration > 0

MergeStrategies == {"squash", "merge", "rebase"}

\* config.DefaultConfig; the zero values of the fields it does not set
\* are written out for those the model reads.
DefaultConfig ==
    [Prompt |-> <<>>,
     MaxRuns |-> 0,
     MaxCost |-> 0,
     MaxDuration |-> 0,
     MergeStrategy |-> "squash",
     GitBranchPrefix |-> "continuous-claude/",
     NotesFile |-> "SHARED_TASK_NOTES.md",
     DisableCommits |-> FALSE,
     DryRun |-> FALSE,
     CompletionSignal |-> <<"CONTINUOUS_CLAUDE_PROJECT_COMPLETE">>,
     CompletionThreshold |-> 3,
     WorktreeBaseDir |-> "../continuous-claude-worktrees"]

\* Config.Validate: "" when the configuration is accepted, else the error.
Validate(c) ==
    IF c.Prompt = <<>> THEN "prompt is required"
    ELSE IF c.MaxRuns = 0 /\ FloatEq(c.MaxCost, 0) /\ c.MaxDuration = 0
        THEN "at least one limit must be set"
    ELSE IF c.MaxRuns < 0 THEN "--max-runs must be non-negative"
    ELSE IF FloatLt(c.MaxCost, 0) THEN "--max-cost must be non-negative"
    ELSE IF c.MaxDuration < 0 THEN "--max-duration must be non-negative"
    ELSE IF c.CompletionThreshold < 1
        THEN "--completion-threshold must be at least 1"
    ELSE IF c.MergeStrategy \notin MergeStrategies
        THEN "--merge-strategy must be one of: squash, merge, rebase"
    ELSE ""

\* A time.Duration is counted in milliseconds here.
Millisecond == 1
Second == 1000 * Millisecond
Minute == 60 * Second
Hour == 60 * Minute

IsDigit(c) == \E i \in 1..10 : Digits[i] = c

DigitVal(c) == CHOOSE v \in 0..9 : Digits[v + 1] = c

\* Number of digits s starts with.
RECURSIVE LeadingDigits(_)
LeadingDigits(s) ==
    IF s = <<>> \/ ~IsDigit(Head(s)) THEN 0
    ELSE 1 + LeadingDigits(Tail(s))

\* strconv.Atoi on a run of digits.
RECURSIVE Atoi(_)
Atoi(ds) ==
    IF ds = <<>> THEN 0
    ELSE 10 * Atoi(SubSeq(ds, 1, Len(ds) - 1)) + DigitVal(ds[Len(ds)])

\* Number of characters before the next digit: the unit of a group of
\* time.ParseDuration runs up to the next digit or the end.
RECURSIVE UnitLen(_)
UnitLen(s) ==
    IF s = <<>> \/ IsDigit(Head(s)) THEN 0
    ELSE 1 + UnitLen(Tail(s))

\* unitMap of package time, for the units a text over h, m and s can spell
\* (0 = unknown unit).
GoUnit(u) ==
    CASE u = <<"h">> -> Hour
      [] u = <<"m">> -> Minute
      [] u = <<"s">> -> Second
      [] u = <<"m", "s">> -> Millisecond
      [] OTHER -> 0

\* The loop of time.ParseDuration over the groups number+unit of a text
\* without fractions.
RECURSIVE GoGroups(_, _)
GoGroups(s, d) ==
    IF s = <<>> THEN [d |-> d, ok |-> TRUE]
    ELSE LET n == LeadingDigits(s)
             rest == SubSeq(s, n + 1, Len(s))
             i == UnitLen(rest)
             unit == GoUnit(SubSeq(rest, 1, i))
         IN  IF n = 0 \/ i = 0 \/ unit = 0 THEN [d |-> 0, ok |-> FALSE]
             ELSE GoGroups(SubSeq(rest, i + 1, Len(rest)),
                           d + Atoi(SubSeq(s, 1, n)) * unit)

\* time.ParseDuration: an optional sign, then "0" or one or more groups.
GoParseDuration(s) ==
    LET signed == s # <<>> /\ Head(s) \in {"-", "+"}
        neg == s # <<>> /\ Head(s) = "-"
        body == IF signed THEN Tail(s) ELSE s
    IN  IF body = <<"0">> THEN [d |-> 0, ok |-> TRUE]
        ELSE IF body = <<>> THEN [d |-> 0, ok |-> FALSE]
        ELSE LET g == GoGroups(body, 0)
             IN  IF g.ok /\ neg THEN [d |-> 0 - g.d, ok |-> TRUE] ELSE g

\* One optional group (\d+)<unit> of the pattern of ParseDuration, taken
\* from the front of s: num is the text of the number, <<>> when the group
\* does not take part in the match.
TakeGroup(s, unit) ==
    LET n == LeadingDigits(s)
    IN  IF n > 0 /\ n < Len(s) /\ s[n + 1] = unit
            THEN [num |-> SubSeq(s, 1, n), rest |-> SubSeq(s, n + 2, Len(s))]
            ELSE [num |-> <<>>, rest |-> s]

\* FindStringSubmatch of ^(?:(\d+)h)?(?:(\d+)m)?(?:(\d+)s)?$ : <<>> (nil) or
\* the three submatches.
MatchHMS(s) ==
    LET h == TakeGroup(s, "h")
        m == TakeGroup(h.rest, "m")
        sec == TakeGroup(m.rest, "s")
    IN  IF sec.rest = <<>> THEN <<[h |-> h.num, m |-> m.num, s |-> sec.num]>>
        ELSE <<>>

HMSTotal(match) ==
    (IF match.h # <<>> THEN Atoi(match.h) * Hour ELSE 0)
        + (IF match.m # <<>> THEN Atoi(match.m) * Minute ELSE 0)
        + (IF match.s # <<>> THEN Atoi(match.s) * Second ELSE 0)

ParseDurationCustomOnly(s) ==
    IF s = <<>> THEN [d |-> 0, err |-> ""]
    ELSE LET matches == MatchHMS(s)
         IN  IF matches = <<>> THEN [d |-> 0, err |-> "invalid duration format"]
             ELSE IF HMSTotal(matches[1]) = 0 THEN [d |-> 0, err |-> "invalid duration"]
             ELSE [d |-> HMSTotal(matches[1]), err |-> ""]

\* config.ParseDuration: the standard parser first, then the pattern.
ParseDuration(s) ==
    IF s = <<>> THEN [d |-> 0, err |-> ""]
    ELSE LET std == GoParseDuration(s)
             matches == MatchHMS(s)
         IN  IF std.ok THEN [d |-> std.d, err |-> ""]
             ELSE IF matches = <<>> THEN [d |-> 0, err |-> "invalid duration format"]
             ELSE IF HMSTotal(matches[1]) = 0 THEN [d |-> 0, err |-> "invalid duration"]
             ELSE [d |-> HMSTotal(matches[1]), err |-> ""]

\* config.FormatDuration for d >= 0.
FormatDuration(d) ==
    IF d = 0 THEN <<"0", "s">>
    ELSE LET hours == d \div Hour
             minutes == (d \div Minute) % 60
             seconds == (d \div Second) % 60
         IN  (IF hours > 0 THEN Append(Itoa(hours), "h") ELSE <<>>)
                 \o (IF minutes > 0 THEN Append(Itoa(minutes), "m") ELSE <<>>)
                 \o (IF seconds > 0 THEN Append(Itoa(seconds), "s") ELSE <<>>)

----------------------------------------------------------------------------
(* Limit policy *)

ReasonMaxRuns == "reached max iterations"
ReasonMaxCost == "reached max cost"
ReasonMaxDuration == "reached max duration"
ReasonCompletion == "project completion signal detected"

StopState(n, cost, elapsed, signals) ==
    [iteration |-> n, totalCost |-> cost, elapsed |-> elapsed,
     completionSignalCount |-> signals]

checkStopConditionsOffByOne(c, s) ==
    IF HasMaxRuns(c) /\ s.iteration >= c.MaxRuns
        THEN [stop |-> TRUE, reason |-> ReasonMaxRuns]
    ELSE IF HasMaxCost(c) /\ s.totalCost >= c.MaxCost
        THEN [stop |-> TRUE, reason |-> ReasonMaxCost]
    ELSE IF HasMaxDuration(c) /\ s.elapsed >= c.MaxDuration
        THEN [stop |-> TRUE, reason |-> ReasonMaxDuration]
    ELSE IF s.completionSignalCount >= c.CompletionThreshold
        THEN [stop |-> TRUE, reason |-> ReasonCompletion]
    ELSE [stop |-> FALSE, reason |-> ""]

checkStopConditionsCompletionFirst(c, s) ==
    IF s.completionSignalCount >= c.CompletionThreshold
        THEN [stop |-> TRUE, reason |-> ReasonCompletion]
    ELSE IF HasMaxRuns(c) /\ s.iteration > c.MaxRuns
        THEN [stop |-> TRUE, reason |-> ReasonMaxRuns]
    ELSE IF HasMaxCost(c) /\ s.totalCost >= c.MaxCost
        THEN [stop |-> TRUE, reason |-> ReasonMaxCost]
    ELSE IF HasMaxDuration(c) /\ s.elapsed >= c.MaxDuration
        THEN [stop |-> TRUE, reason |-> ReasonMaxDuration]
    ELSE [stop |-> FALSE, reason |-> ""]

checkStopConditionsExclusive(c, s) ==
    IF HasMaxRuns(c) /\ s.iteration > c.MaxRuns
        THEN [stop |-> TRUE, reason |-> ReasonMaxRuns]
    ELSE IF HasMaxCost(c) /\ s.totalCost > c.MaxCost
        THEN [stop |-> TRUE, reason |-> ReasonMaxCost]
    ELSE IF HasMaxDuration(c) /\ s.elapsed > c.MaxDuration
        THEN [stop |-> TRUE, reason |-> ReasonMaxDuration]
    ELSE IF s.completionSignalCount >= c.CompletionThreshold
        THEN [stop |-> TRUE, reason |-> ReasonCompletion]
    ELSE [stop |-> FALSE, reason |-> ""]

checkStopConditions(c, s) ==
    IF HasMaxRuns(c) /\ s.iteration > c.MaxRuns
        THEN [stop |-> TRUE, reason |-> ReasonMaxRuns]
    ELSE IF HasMaxCost(c) /\ s.totalCost >= c.MaxCost
        THEN [stop |-> TRUE, reason |-> ReasonMaxCost]
    ELSE IF HasMaxDuration(c) /\ s.elapsed >= c.MaxDuration
        THEN [stop |-> TRUE, reason |-> ReasonMaxDuration]
    ELSE IF s.completionSignalCount >= c.CompletionThreshold
        THEN [stop |-> TRUE, reason |-> ReasonCompletion]
    ELSE [stop |-> FALSE, reason |-> ""]

----------------------------------------------------------------------------
(* Review lifecycle tracker *)

PassedStates == {"SUCCESS", "NEUTRAL", "SKIPPED"}
PendingStates == {"PENDING", "QUEUED", "IN_PROGRESS"}
FailedStates == {"FAILURE", "ERROR", "CANCELLED", "TIMED_OUT", "ACTION_REQUIRED"}

\* The loop over the checks of GetPRStatus: both flags start false and a
\* check can only raise one of them.
RECURSIVE AnalyzeChecks(_, _, _)
AnalyzeChecks(checks, pending, failed) ==
    IF checks = <<>> THEN [pending |-> pending, failed |-> failed]
    ELSE LET state == Head(checks)
         IN  IF state \in PassedStates
                 THEN AnalyzeChecks(Tail(checks), pending, failed)
             ELSE IF state \in PendingStates
                 THEN AnalyzeChecks(Tail(checks), TRUE, failed)
             ELSE IF state \in FailedStates
                 THEN AnalyzeChecks(Tail(checks), pending, TRUE)
             ELSE AnalyzeChecks(Tail(checks), pending, failed)

GetPRStatusFailClosed(checks, reviewDecision) ==
    LET flags == AnalyzeChecks(checks, FALSE, FALSE)
        unknown == \E i \in 1..Len(checks) :
                       checks[i] \notin PassedStates \cup PendingStates \cup FailedStates
        pending == flags.pending \/ unknown
        allPassed == Len(checks) = 0 \/ (~pending /\ ~flags.failed)
    IN  [Checks |-> checks,
         ReviewDecision |-> reviewDecision,
         HasPendingChecks |-> pending,
         HasFailedChecks |-> flags.failed,
         AllChecksPassed |-> allPassed,
         IsMergeable |-> allPassed /\ (reviewDecision = "" \/ reviewDecision = "APPROVED")]

GetPRStatusIgnoreFailed(checks, reviewDecision) ==
    LET flags == AnalyzeChecks(checks, FALSE, FALSE)
        allPassed == Len(checks) = 0 \/ ~flags.pending
    IN  [Checks |-> checks,
         ReviewDecision |-> reviewDecision,
         HasPendingChecks |-> flags.pending,
         HasFailedChecks |-> flags.failed,
         AllChecksPassed |-> allPassed,
         IsMergeable |-> allPassed /\ (reviewDecision = "" \/ reviewDecision = "APPROVED")]

GetPRStatusLenientReview(checks, reviewDecision) ==
    LET flags == AnalyzeChecks(checks, FALSE, FALSE)
        allPassed == Len(checks) = 0 \/ (~flags.pending /\ ~flags.failed)
    IN  [Checks |-> checks,
         ReviewDecision |-> reviewDecision,
         HasPendingChecks |-> flags.pending,
         HasFailedChecks |-> flags.failed,
         AllChecksPassed |-> allPassed,
         IsMergeable |-> allPassed /\ reviewDecision # "CHANGES_REQUESTED"]

\* GetPRStatus after both queries succeeded.
GetPRStatus(checks, reviewDecision) ==
    LET flags == AnalyzeChecks(checks, FALSE, FALSE)
        allPassed == Len(checks) = 0 \/ (~flags.pending /\ ~flags.failed)
    IN  [Checks |-> checks,
         ReviewDecision |-> reviewDecision,
         HasPendingChecks |-> flags.pending,
         HasFailedChecks |-> flags.failed,
         AllChecksPassed |-> allPassed,
         IsMergeable |-> allPassed /\ (reviewDecision = "" \/ reviewDecision = "APPROVED")]

hasStatusChangedNoReview(old, new) ==
    IF old = <<>> THEN TRUE
    ELSE IF old[1].AllChecksPassed # new.AllChecksPassed THEN TRUE
    ELSE IF old[1].HasPendingChecks # new.HasPendingChecks THEN TRUE
    ELSE IF old[1].HasFailedChecks # new.HasFailedChecks THEN TRUE
    ELSE FALSE

ChecksQueryError == "failed to get PR checks"
ReviewQueryError == "failed to get PR review status"

\* GetPRStatus with its two queries: the first that fails ends it with
\* (nil, err); status is <<>> (nil) or a one-element sequence.
GetPRStatusResult(checksFailed, reviewFailed, checks, reviewDecision) ==
    IF checksFailed THEN [status |-> <<>>, err |-> ChecksQueryError]
    ELSE IF reviewFailed THEN [status |-> <<>>, err |-> ReviewQueryError]
    ELSE [status |-> <<GetPRStatus(checks, reviewDecision)>>, err |-> ""]

\* old is <<>> (nil) or a one-element sequence holding the previous snapshot.
hasStatusChanged(old, new) ==
    IF old = <<>> THEN TRUE
    ELSE IF old[1].AllChecksPassed # new.AllChecksPassed THEN TRUE
    ELSE IF old[1].HasPendingChecks # new.HasPendingChecks THEN TRUE
    ELSE IF old[1].HasFailedChecks # new.HasFailedChecks THEN TRUE
    ELSE IF old[1].ReviewDecision # new.ReviewDecision THEN TRUE
    ELSE FALSE

\* What one poll can find on the pull request.
PollChecks == {<<>>, <<"SUCCESS">>, <<"PENDING">>, <<"FAILURE">>}
PollDecisions == {"", "APPROVED", "CHANGES_REQUESTED"}

\* The gh invocations that end a pull request, named with their flags:
\* gh pr merge <n> --<strategy> --delete-branch
MergePR(strategy) ==
    CASE strategy = "squash" -> "MergePR --squash --delete-branch"
      [] strategy = "merge" -> "MergePR --merge --delete-branch"
      [] strategy = "rebase" -> "MergePR --rebase --delete-branch"

\* gh pr close <n> [--delete-branch]
ClosePR(deleteBranch) ==
    IF deleteBranch THEN "ClosePR --delete-branch" ELSE "ClosePR"

----------------------------------------------------------------------------
(* Retry/backoff executor *)

\* Error texts are sequences of words; the signatures are single words.
NetworkSignatures ==
    {<<"Could not resolve host">>, <<"Connection refused">>,
     <<"Network is unreachable">>, <<"Connection timed out">>,
     <<"SSL">>, <<"443">>}

isNetworkError(err) ==
    IF err = <<>> THEN FALSE
    ELSE \E sig \in NetworkSignatures : Contains(err, sig)

\* What one git push can answer (<<>> = success).
PushErrors ==
    {<<>>, <<"fatal:", "Could not resolve host", "github.com">>,
     <<"rejected", "non-fast-forward">>}

PushMaxRetries == 3
InitialBackoff == 2

\* State of one PushWithRetry call; err is its result once it has returned:
\* "" (nil, or still running), "push" (the error of the single failed attempt
\* returned as is) or "retries" ("push failed after <reported> retries").
\* lastErr is the error of the last failed attempt, wrapped the error the
\* aggregate error wraps (<<>> = none).
PushStart ==
    [i |-> 0, backoff |-> InitialBackoff, attempts |-> 0, delays |-> <<>>,
     err |-> "", reported |-> 0, lastErr |-> <<>>, wrapped |-> <<>>]

PushLoopBodyReportsAttempts(p, pushErr, maxRetries) ==
    LET slept == [p EXCEPT !.delays = IF p.i > 0 THEN Append(@, p.backoff) ELSE @,
                           !.backoff = IF p.i > 0 THEN @ * 2 ELSE @]
        tried == [slept EXCEPT !.attempts = @ + 1]
        failed == [tried EXCEPT !.lastErr = pushErr]
    IN  IF pushErr = <<>> THEN tried
        ELSE IF ~isNetworkError(pushErr) THEN [failed EXCEPT !.err = "push"]
        ELSE IF failed.i + 1 > maxRetries
            THEN [failed EXCEPT !.i = @ + 1, !.err = "retries",
                                !.reported = failed.attempts, !.wrapped = pushErr]
        ELSE [failed EXCEPT !.i = @ + 1]

\* One pass through the loop body of PushWithRetry whose git push answers
\* pushErr: the sleep before a retry, the attempt, and the loop exit.
PushLoopBody(p, pushErr, maxRetries) ==
    LET slept == [p EXCEPT !.delays = IF p.i > 0 THEN Append(@, p.backoff) ELSE @,
                           !.backoff = IF p.i > 0 THEN @ * 2 ELSE @]
        tried == [slept EXCEPT !.attempts = @ + 1]
        failed == [tried EXCEPT !.lastErr = pushErr]
    IN  IF pushErr = <<>> THEN tried
        ELSE IF ~isNetworkError(pushErr) THEN [failed EXCEPT !.err = "push"]
        ELSE IF failed.i + 1 > maxRetries
            THEN [failed EXCEPT !.i = @ + 1, !.err = "retries",
                                !.reported = maxRetries, !.wrapped = failed.lastErr]
        ELSE [failed EXCEPT !.i = @ + 1]

----------------------------------------------------------------------------
(* Orchestrator.Run *)

BaseBranch == "base"

Outputs == {<<"b", "a", "b">>, <<"A", "b">>}

Configs ==
    {c \in [Prompt : {<<"a">>},
            MaxRuns : 0..MaxRunsBound,
            MaxCost : {0, 2},
            MaxDuration : {0, 2},
            CompletionThreshold : {1, 2},
            CompletionSignal : {Phrase},
            MergeStrategy : {"squash", "rebase"},
            DisableCommits : BOOLEAN,
            DryRun : BOOLEAN] : Validate(c) = ""}

NoFn == <<>>

Init ==
    /\ config \in Configs
    /\ iteration = 0
    /\ started = 0
    /\ totalCost = 0
    /\ completionSignalCount = 0
    /\ now = 0
    /\ pc = "loop"
    /\ stopReason = ""
    /\ iterErr = ""
    /\ curBranch = BaseBranch
    /\ ops = <<>>
    /\ outputs = <<>>
    /\ branchedFrom = ""
    /\ push = PushStart
    /\ deadline = 0
    /\ lastStatus = <<>>
    /\ status = <<>>
    /\ waitErr = ""
    /\ callbacks = 0
    /\ summary = <<>>
    /\ result = <<>>
    /\ notesFile = <<>>
    /\ fnIn = NoFn
    /\ fnOut = NoFn

fnVars == <<fnIn, fnOut>>
branchVars == <<curBranch, branchedFrom>>
waitVars == <<deadline, lastStatus, status, waitErr, callbacks>>
stateVars == <<totalCost, completionSignalCount, outputs>>

CurrentStopState ==
    StopState(iteration, totalCost, now, completionSignalCount)

\* ui.Summary(o.iteration-1, o.totalCost, elapsed, count >= threshold), where
\* n is o.iteration after the increment at the top of the cycle.
SummaryArgsStrict(n) ==
    [iterations |-> n - 1, totalCost |-> totalCost, elapsed |-> now,
     completed |-> completionSignalCount > config.CompletionThreshold]

SummaryArgs(n) ==
    [iterations |-> n - 1, totalCost |-> totalCost, elapsed |-> now,
     completed |-> completionSignalCount >= config.CompletionThreshold]

LoopStopAfterBranch ==
    /\ pc = "loop"
    /\ iteration' = iteration + 1
    /\ LET r == checkStopConditions(config,
                    StopState(iteration + 1, totalCost, now, completionSignalCount))
       IN  /\ r.stop
           /\ stopReason' = r.reason
    /\ summary' = Append(summary, SummaryArgs(iteration + 1))
    /\ pc' = "done"
    /\ ops' = <<"CreateBranch">>
    /\ curBranch' = "feature"
    /\ branchedFrom' = curBranch
    /\ result' = <<>>
    /\ UNCHANGED <<config, notesFile, started, now, iterErr, stateVars, push,
                   waitVars, fnVars>>

\* Top of the for loop of Run when the stop check says stop: o.iteration++,
\* the check, break, then the summary and return nil.
LoopStop ==
    /\ pc = "loop"
    /\ iteration' = iteration + 1
    /\ LET r == checkStopConditions(config,
                    StopState(iteration + 1, totalCost, now, completionSignalCount))
       IN  /\ r.stop
           /\ stopReason' = r.reason
    /\ summary' = Append(summary, SummaryArgs(iteration + 1))
    /\ pc' = "done"
    /\ result' = <<>>
    /\ UNCHANGED <<config, notesFile, started, now, iterErr, branchVars, ops, stateVars, push,
                   waitVars, fnVars>>

\* Top of the for loop of Run when the stop check says continue: o.iteration++,
\* the check, then runIteration is entered.
LoopContinue ==
    /\ pc = "loop"
    /\ iteration < MaxIter
    /\ iteration' = iteration + 1
    /\ LET r == checkStopConditions(config,
                    StopState(iteration + 1, totalCost, now, completionSignalCount))
       IN  /\ ~r.stop
           /\ stopReason' = r.reason
    /\ pc' = "createBranch"
    /\ started' = started + 1
    /\ ops' = <<>>
    /\ iterErr' = ""
    /\ push' = PushStart
    /\ deadline' = 0
    /\ lastStatus' = <<>>
    /\ status' = <<>>
    /\ waitErr' = ""
    /\ callbacks' = 0
    /\ result' = <<>>
    /\ UNCHANGED <<config, notesFile, now, branchVars, stateVars, summary, fnVars>>

----------------------------------------------------------------------------
(* Orchestrator.runIteration *)

\* return err: back in Run, which logs a non-nil error and continues.
Return(err) ==
    /\ pc' = "loop"
    /\ iterErr' = err

\* _ = o.git.SwitchBranch(o.baseBranch): the error is dropped, so a failed
\* checkout leaves the working copy where it was.
SwitchToBase(switched) ==
    curBranch' = IF switched THEN BaseBranch ELSE curBranch

CreateBranchOk ==
    /\ pc = "createBranch"
    /\ ops' = Append(ops, "CreateBranch")
    /\ branchedFrom' = curBranch
    /\ curBranch' = "feature"
    /\ pc' = "agent"
    /\ UNCHANGED <<config, notesFile, result, iteration, started, now, stopReason, iterErr, stateVars,
                   push, waitVars, summary, fnVars>>

CreateBranchFailResetsCount ==
    /\ pc = "createBranch"
    /\ ops' = Append(ops, "CreateBranch")
    /\ completionSignalCount' = 0
    /\ Return("failed to create branch")
    /\ UNCHANGED <<config, notesFile, result, iteration, started, now, stopReason, branchVars, totalCost,
                   outputs, push, waitVars, summary, fnVars>>

CreateBranchFail ==
    /\ pc = "createBranch"
    /\ ops' = Append(ops, "CreateBranch")
    /\ Return("failed to create branch")
    /\ UNCHANGED <<config, notesFile, result, iteration, started, now, stopReason, branchVars, stateVars,
                   push, waitVars, summary, fnVars>>

\* claude.Run: a process that fails, like an error the agent reports, only
\* sets result.IsError; the returned error is nil on both paths.
ClaudeRun(out, cost, failed) ==
    [Output |-> out, Cost |-> cost, IsError |-> failed, err |-> ""]

TrackedCostUnlessError(r) == IF r.IsError THEN 0 ELSE r.Cost

\* o.totalCost += result.Cost
TrackedCost(r) == r.Cost

\* Cost and completion signal are tracked, result.IsError only gives a
\* warning, then the two no-publish modes end the iteration.
AgentEffectsNoReset(out, cost, ticks) ==
    /\ ticks \in 0..1
    /\ now' = now + ticks
    /\ totalCost' = totalCost + cost
    /\ completionSignalCount' =
           IF ContainsCompletionSignal(out, config.CompletionSignal)
               THEN completionSignalCount + 1
               ELSE completionSignalCount
    /\ outputs' = Append(outputs, out)

AgentEffects(out, cost, ticks) ==
    /\ ticks \in 0..1
    /\ now' = now + ticks
    /\ totalCost' = totalCost + cost
    /\ completionSignalCount' =
           IF ContainsCompletionSignal(out, config.CompletionSignal)
               THEN completionSignalCount + 1
               ELSE 0
    /\ outputs' = Append(outputs, out)

AgentDisableCommits ==
    /\ pc = "agent"
    /\ config.DisableCommits
    /\ \E out \in Outputs, cost \in 0..MaxCostDelta, failed \in BOOLEAN, ticks \in 0..1 :
           LET r == ClaudeRun(out, cost, failed)
           IN  /\ r.err = ""
               /\ AgentEffects(r.Output, TrackedCost(r), ticks)
               /\ result' = <<[Cost |-> r.Cost, IsError |-> r.IsError]>>
    /\ ops' = Append(ops, "Run")
    /\ Return("")
    /\ UNCHANGED <<config, notesFile, iteration, started, stopReason, branchVars, push, waitVars,
                   summary, fnVars>>

AgentDryRun ==
    /\ pc = "agent"
    /\ ~config.DisableCommits
    /\ config.DryRun
    /\ \E out \in Outputs, cost \in 0..MaxCostDelta, failed \in BOOLEAN, ticks \in 0..1 :
           LET r == ClaudeRun(out, cost, failed)
           IN  /\ r.err = ""
               /\ AgentEffects(r.Output, TrackedCost(r), ticks)
               /\ result' = <<[Cost |-> r.Cost, IsError |-> r.IsError]>>
    /\ ops' = ops \o <<"Run", "SwitchBranch", "DeleteBranch">>
    /\ \E switched \in BOOLEAN : SwitchToBase(switched)
    /\ Return("")
    /\ UNCHANGED <<config, notesFile, iteration, started, stopReason, branchedFrom, push, waitVars,
                   summary, fnVars>>

AgentPublishAlways ==
    /\ pc = "agent"
    /\ ~config.DisableCommits
    /\ \E out \in Outputs, cost \in 0..MaxCostDelta, failed \in BOOLEAN, ticks \in 0..1 :
           LET r == ClaudeRun(out, cost, failed)
           IN  /\ r.err = ""
               /\ AgentEffects(r.Output, TrackedCost(r), ticks)
               /\ result' = <<[Cost |-> r.Cost, IsError |-> r.IsError]>>
    /\ ops' = Append(ops, "Run")
    /\ pc' = "stage"
    /\ UNCHANGED <<config, notesFile, iteration, started, stopReason, iterErr, branchVars, push,
                   waitVars, summary, fnVars>>

AgentPublish ==
    /\ pc = "agent"
    /\ ~config.DisableCommits
    /\ ~config.DryRun
    /\ \E out \in Outputs, cost \in 0..MaxCostDelta, failed \in BOOLEAN, ticks \in 0..1 :
           LET r == ClaudeRun(out, cost, failed)
           IN  /\ r.err = ""
               /\ AgentEffects(r.Output, TrackedCost(r), ticks)
               /\ result' = <<[Cost |-> r.Cost, IsError |-> r.IsError]>>
    /\ ops' = Append(ops, "Run")
    /\ pc' = "stage"
    /\ UNCHANGED <<config, notesFile, iteration, started, stopReason, iterErr, branchVars, push,
                   waitVars, summary, fnVars>>

StageAllFail ==
    /\ pc = "stage"
    /\ ops' = Append(ops, "StageAll")
    /\ Return("failed to stage changes")
    /\ result' = <<>>
    /\ UNCHANGED <<config, notesFile, iteration, started, now, stopReason, branchVars, stateVars,
                   push, waitVars, summary, fnVars>>

HasChangesFail ==
    /\ pc = "stage"
    /\ ops' = ops \o <<"StageAll", "HasChanges">>
    /\ Return("failed to check for changes")
    /\ result' = <<>>
    /\ UNCHANGED <<config, notesFile, iteration, started, now, stopReason, branchVars, stateVars,
                   push, waitVars, summary, fnVars>>

NoChanges ==
    /\ pc = "stage"
    /\ ops' = ops \o <<"StageAll", "HasChanges", "SwitchBranch", "DeleteBranch">>
    /\ \E switched \in BOOLEAN : SwitchToBase(switched)
    /\ Return("")
    /\ result' = <<>>
    /\ UNCHANGED <<config, notesFile, iteration, started, now, stopReason, branchedFrom, stateVars,
                   push, waitVars, summary, fnVars>>

HasChanges ==
    /\ pc = "stage"
    /\ ops' = ops \o <<"StageAll", "HasChanges">>
    /\ pc' = "commit"
    /\ result' = <<>>
    /\ UNCHANGED <<config, notesFile, iteration, started, now, stopReason, iterErr, branchVars,
                   stateVars, push, waitVars, summary, fnVars>>

RunCommitFail ==
    /\ pc = "commit"
    /\ ops' = Append(ops, "RunCommit")
    /\ Return("failed to create commit")
    /\ UNCHANGED <<config, notesFile, result, iteration, started, now, stopReason, branchVars, stateVars,
                   push, waitVars, summary, fnVars>>

RunCommitOk ==
    /\ pc = "commit"
    /\ ops' = Append(ops, "RunCommit")
    /\ pc' = "push"
    /\ UNCHANGED <<config, notesFile, result, iteration, started, now, stopReason, iterErr, branchVars,
                   stateVars, push, waitVars, summary, fnVars>>

\* o.git.PushWithRetry(branchName, 3), one loop pass per step.
PushOk ==
    /\ pc = "push"
    /\ push' = PushLoopBody(push, <<>>, PushMaxRetries)
    /\ ops' = IF push.i = 0 THEN Append(ops, "PushWithRetry") ELSE ops
    /\ pc' = "createPR"
    /\ UNCHANGED <<config, notesFile, result, iteration, started, now, stopReason, iterErr, branchVars,
                   stateVars, waitVars, summary, fnVars>>

PushRetry ==
    /\ pc = "push"
    /\ \E e \in PushErrors \ {<<>>} :
           /\ push' = PushLoopBody(push, e, PushMaxRetries)
           /\ push'.err = ""
    /\ ops' = IF push.i = 0 THEN Append(ops, "PushWithRetry") ELSE ops
    /\ UNCHANGED <<config, notesFile, result, iteration, started, now, pc, stopReason, iterErr, branchVars,
                   stateVars, waitVars, summary, fnVars>>

PushFailDiscardsBranch ==
    /\ pc = "push"
    /\ \E e \in PushErrors \ {<<>>} :
           /\ push' = PushLoopBody(push, e, PushMaxRetries)
           /\ push'.err # ""
    /\ ops' = (IF push.i = 0 THEN Append(ops, "PushWithRetry") ELSE ops)
                  \o <<"SwitchBranch", "DeleteBranch">>
    /\ \E switched \in BOOLEAN : SwitchToBase(switched)
    /\ Return("failed to push")
    /\ UNCHANGED <<config, notesFile, result, iteration, started, now, stopReason, branchedFrom, stateVars,
                   waitVars, summary, fnVars>>

PushFail ==
    /\ pc = "push"
    /\ \E e \in PushErrors \ {<<>>} :
           /\ push' = PushLoopBody(push, e, PushMaxRetries)
           /\ push'.err # ""
    /\ ops' = IF push.i = 0 THEN Append(ops, "PushWithRetry") ELSE ops
    /\ Return("failed to push")
    /\ UNCHANGED <<config, notesFile, result, iteration, started, now, stopReason, branchVars, stateVars,
                   waitVars, summary, fnVars>>

CreatePRFail ==
    /\ pc = "createPR"
    /\ ops' = Append(ops, "CreatePR")
    /\ push' = PushStart
    /\ Return("failed to create PR")
    /\ UNCHANGED <<config, notesFile, result, iteration, started, now, stopReason, branchVars, stateVars,
                   waitVars, summary, fnVars>>

\* CreatePR succeeded; WaitForChecks is entered: deadline := now + timeout.
CreatePROk ==
    /\ pc = "createPR"
    /\ ops' = ops \o <<"CreatePR", "WaitForChecks">>
    /\ deadline' = now + MaxWaitTicks
    /\ lastStatus' = <<>>
    /\ push' = PushStart
    /\ pc' = "wait"
    /\ UNCHANGED <<config, notesFile, result, iteration, started, now, stopReason, iterErr, branchVars,
                   stateVars, status, waitErr, callbacks, summary, fnVars>>

----------------------------------------------------------------------------
(* github.Client.WaitForChecks, one pass of its loop per step *)

\* WaitForChecks returns to runIteration: its locals deadline and
\* lastStatus are gone, the returned status and error remain.
WaitReturn ==
    /\ pc' = "handle"
    /\ deadline' = 0
    /\ lastStatus' = <<>>

TimeoutError == "timeout waiting for PR checks"

WaitTimeoutNoSnapshot ==
    /\ pc = "wait"
    /\ ~(now < deadline)
    /\ status' = <<>>
    /\ waitErr' = TimeoutError
    /\ WaitReturn
    /\ UNCHANGED <<config, notesFile, result, iteration, started, now, stopReason, iterErr, branchVars, ops,
                   stateVars, push, callbacks, summary, fnVars>>

\* The loop condition fails: return lastStatus, timeout error.
WaitTimeout ==
    /\ pc = "wait"
    /\ ~(now < deadline)
    /\ status' = lastStatus
    /\ waitErr' = TimeoutError
    /\ WaitReturn
    /\ UNCHANGED <<config, notesFile, result, iteration, started, now, stopReason, iterErr, branchVars, ops,
                   stateVars, push, callbacks, summary, fnVars>>

WaitPollErrorKeepsLast ==
    /\ pc = "wait"
    /\ now < deadline
    /\ \E checksFailed, reviewFailed \in BOOLEAN :
           LET r == GetPRStatusResult(checksFailed, reviewFailed, <<>>, "")
           IN  /\ r.err # ""
               /\ waitErr' = r.err
    /\ status' = lastStatus
    /\ WaitReturn
    /\ UNCHANGED <<config, notesFile, result, iteration, started, now, stopReason, iterErr, branchVars, ops,
                   stateVars, push, callbacks, summary, fnVars>>

\* GetPRStatus fails in one of its queries: return nil, err.
WaitPollError ==
    /\ pc = "wait"
    /\ now < deadline
    /\ \E checksFailed, reviewFailed \in BOOLEAN :
           LET r == GetPRStatusResult(checksFailed, reviewFailed, <<>>, "")
           IN  /\ r.err # ""
               /\ waitErr' = r.err
    /\ status' = <<>>
    /\ WaitReturn
    /\ UNCHANGED <<config, notesFile, result, iteration, started, now, stopReason, iterErr, branchVars, ops,
                   stateVars, push, callbacks, summary, fnVars>>

Notify(old, new) == IF hasStatusChanged(old, new) THEN 1 ELSE 0

IsTerminalFailedOnly(st) == st.HasFailedChecks

IsTerminal(st) == st.HasFailedChecks \/ st.AllChecksPassed

WaitPollTerminal ==
    /\ pc = "wait"
    /\ now < deadline
    /\ \E checks \in PollChecks, decision \in PollDecisions :
           LET st == GetPRStatus(checks, decision)
           IN  /\ IsTerminal(st)
               /\ callbacks' = callbacks + Notify(lastStatus, st)
               /\ status' = <<st>>
    /\ waitErr' = ""
    /\ WaitReturn
    /\ UNCHANGED <<config, notesFile, result, iteration, started, now, stopReason, iterErr, branchVars, ops,
                   stateVars, push, summary, fnVars>>

WaitPollSleepNoAdvance ==
    /\ pc = "wait"
    /\ now < deadline
    /\ \E checks \in PollChecks, decision \in PollDecisions :
           LET st == GetPRStatus(checks, decision)
           IN  /\ ~IsTerminal(st)
               /\ callbacks' = callbacks + Notify(lastStatus, st)
               /\ lastStatus' = <<st>>
    /\ now' = now
    /\ UNCHANGED <<config, notesFile, result, iteration, started, pc, stopReason, iterErr, branchVars, ops,
                   stateVars, push, deadline, status, waitErr, summary, fnVars>>

\* A snapshot that is not final: time.Sleep(pollInterval), then the loop
\* test again.
WaitPollSleep ==
    /\ pc = "wait"
    /\ now < deadline
    /\ \E checks \in PollChecks, decision \in PollDecisions :
           LET st == GetPRStatus(checks, decision)
           IN  /\ ~IsTerminal(st)
               /\ callbacks' = callbacks + Notify(lastStatus, st)
               /\ lastStatus' = <<st>>
    /\ now' = now + 1
    /\ UNCHANGED <<config, notesFile, result, iteration, started, pc, stopReason, iterErr, branchVars, ops,
                   stateVars, push, deadline, status, waitErr, summary, fnVars>>

----------------------------------------------------------------------------
(* runIteration after WaitForChecks returned *)

\* runIteration returns: status goes out of scope; the error WaitForChecks
\* returned stays on record until the next iteration starts.
WaitDone ==
    /\ UNCHANGED <<deadline, lastStatus, waitErr>>
    /\ status' = <<>>
    /\ callbacks' = 0

\* status is nil after a failed poll; status.HasFailedChecks dereferences it.
HandleNilStatus ==
    /\ pc = "handle"
    /\ status = <<>>
    /\ pc' = "crashed"
    /\ UNCHANGED <<config, notesFile, result, iteration, started, now, stopReason, iterErr, branchVars, ops,
                   stateVars, push, waitVars, summary, fnVars>>

HandleFailedChecksKeepBranch ==
    /\ pc = "handle"
    /\ status # <<>>
    /\ status[1].HasFailedChecks
    /\ ops' = ops \o <<ClosePR(FALSE), "SwitchBranch">>
    /\ \E switched \in BOOLEAN : SwitchToBase(switched)
    /\ WaitDone
    /\ Return("")
    /\ UNCHANGED <<config, notesFile, result, iteration, started, now, stopReason, branchedFrom, stateVars,
                   push, summary, fnVars>>

HandleFailedChecksThenMerge ==
    /\ pc = "handle"
    /\ status # <<>>
    /\ status[1].HasFailedChecks
    /\ ops' = ops \o <<ClosePR(TRUE), MergePR(config.MergeStrategy), "SwitchBranch">>
    /\ \E switched \in BOOLEAN : SwitchToBase(switched)
    /\ WaitDone
    /\ Return("")
    /\ UNCHANGED <<config, notesFile, result, iteration, started, now, stopReason, branchedFrom, stateVars,
                   push, summary, fnVars>>

\* status.HasFailedChecks: close the pull request with its branch, go back
\* to the base branch.
HandleFailedChecks ==
    /\ pc = "handle"
    /\ status # <<>>
    /\ status[1].HasFailedChecks
    /\ ops' = ops \o <<ClosePR(TRUE), "SwitchBranch">>
    /\ \E switched \in BOOLEAN : SwitchToBase(switched)
    /\ WaitDone
    /\ Return("")
    /\ UNCHANGED <<config, notesFile, result, iteration, started, now, stopReason, branchedFrom, stateVars,
                   push, summary, fnVars>>

HandleNotMergeableClose ==
    /\ pc = "handle"
    /\ status # <<>>
    /\ ~status[1].HasFailedChecks
    /\ ~status[1].IsMergeable
    /\ ops' = ops \o <<ClosePR(TRUE), "SwitchBranch">>
    /\ \E switched \in BOOLEAN : SwitchToBase(switched)
    /\ WaitDone
    /\ Return("")
    /\ UNCHANGED <<config, notesFile, result, iteration, started, now, stopReason, branchedFrom, stateVars,
                   push, summary, fnVars>>

HandleNotMergeableTimeoutError ==
    /\ pc = "handle"
    /\ status # <<>>
    /\ ~status[1].HasFailedChecks
    /\ ~status[1].IsMergeable
    /\ ops' = Append(ops, "SwitchBranch")
    /\ \E switched \in BOOLEAN : SwitchToBase(switched)
    /\ WaitDone
    /\ Return(waitErr)
    /\ UNCHANGED <<config, notesFile, result, iteration, started, now, stopReason, branchedFrom, stateVars,
                   push, summary, fnVars>>

HandleNotMergeable ==
    /\ pc = "handle"
    /\ status # <<>>
    /\ ~status[1].HasFailedChecks
    /\ ~status[1].IsMergeable
    /\ ops' = Append(ops, "SwitchBranch")
    /\ \E switched \in BOOLEAN : SwitchToBase(switched)
    /\ WaitDone
    /\ Return("")
    /\ UNCHANGED <<config, notesFile, result, iteration, started, now, stopReason, branchedFrom, stateVars,
                   push, summary, fnVars>>

MergePRFail ==
    /\ pc = "handle"
    /\ status # <<>>
    /\ ~status[1].HasFailedChecks
    /\ status[1].IsMergeable
    /\ ops' = Append(ops, MergePR(config.MergeStrategy))
    /\ WaitDone
    /\ Return("failed to merge PR")
    /\ UNCHANGED <<config, notesFile, result, iteration, started, now, stopReason, branchVars, stateVars,
                   push, summary, fnVars>>

MergePROkUnguarded ==
    /\ pc = "handle"
    /\ status # <<>>
    /\ ~status[1].HasFailedChecks
    /\ ops' = ops \o <<MergePR(config.MergeStrategy), "SwitchBranch", "Pull">>
    /\ \E switched \in BOOLEAN : SwitchToBase(switched)
    /\ WaitDone
    /\ Return("")
    /\ UNCHANGED <<config, notesFile, result, iteration, started, now, stopReason, branchedFrom, stateVars,
                   push, summary, fnVars>>

MergePROkPullFirst ==
    /\ pc = "handle"
    /\ status # <<>>
    /\ ~status[1].HasFailedChecks
    /\ status[1].IsMergeable
    /\ ops' = ops \o <<"SwitchBranch", "Pull", MergePR(config.MergeStrategy)>>
    /\ \E switched \in BOOLEAN : SwitchToBase(switched)
    /\ WaitDone
    /\ Return("")
    /\ UNCHANGED <<config, notesFile, result, iteration, started, now, stopReason, branchedFrom, stateVars,
                   push, summary, fnVars>>

MergePROk ==
    /\ pc = "handle"
    /\ status # <<>>
    /\ ~status[1].HasFailedChecks
    /\ status[1].IsMergeable
    /\ ops' = ops \o <<MergePR(config.MergeStrategy), "SwitchBranch", "Pull">>
    /\ \E switched \in BOOLEAN : SwitchToBase(switched)
    /\ WaitDone
    /\ Return("")
    /\ UNCHANGED <<config, notesFile, result, iteration, started, now, stopReason, branchedFrom, stateVars,
                   push, summary, fnVars>>

----------------------------------------------------------------------------
(* The run *)

Next ==
    \/ LoopStop
    \/ LoopContinue
    \/ CreateBranchOk
    \/ CreateBranchFail
    \/ AgentDisableCommits
    \/ AgentDryRun
    \/ AgentPublish
    \/ StageAllFail
    \/ HasChangesFail
    \/ NoChanges
    \/ HasChanges
    \/ RunCommitFail
    \/ RunCommitOk
    \/ PushOk
    \/ PushRetry
    \/ PushFail
    \/ CreatePRFail
    \/ CreatePROk
    \/ WaitTimeout
    \/ WaitPollError
    \/ WaitPollTerminal
    \/ WaitPollSleep
    \/ HandleNilStatus
    \/ HandleFailedChecks
    \/ HandleNotMergeable
    \/ MergePRFail
    \/ MergePROk

Spec == Init /\ [][Next]_vars

\* Runs started with an iteration ceiling (--max-runs M, M > 0).  The merge
\* strategy is only passed on to gh pr merge and decides no branch of Run,
\* so one strategy stands for all of them here.
InitMaxRuns ==
    /\ Init
    /\ HasMaxRuns(config)
    /\ config.MergeStrategy = "squash"

\* One thread of control runs the loop: a step that can be taken is taken.
FairSpec == InitMaxRuns /\ [][Next]_vars /\ WF_vars(Next)

----------------------------------------------------------------------------
(* The pure functions, applied to inputs drawn from bounded sets *)

IdleRun ==
    /\ started = 0
    /\ stopReason = ""
    /\ iterErr = ""
    /\ curBranch = BaseBranch
    /\ branchedFrom = ""
    /\ ops = <<>>
    /\ outputs = <<>>
    /\ push = PushStart
    /\ deadline = 0
    /\ lastStatus = <<>>
    /\ status = <<>>
    /\ waitErr = ""
    /\ callbacks = 0
    /\ summary = <<>>
    /\ result = <<>>

NoNotes == notesFile = <<>>

StopConfigs ==
    {c \in [Prompt : {<<"a">>},
            MaxRuns : 0..MaxRunsBound,
            MaxCost : 0..2,
            MaxDuration : 0..2,
            CompletionThreshold : 1..2,
            CompletionSignal : {Phrase},
            MergeStrategy : {"squash"},
            DisableCommits : {FALSE},
            DryRun : {FALSE}] : Validate(c) = ""}

\* checkStopConditions on an orchestrator in an arbitrary counter state.
InitStop ==
    /\ config \in StopConfigs
    /\ iteration \in 1..MaxStopValue
    /\ totalCost \in 0..MaxStopValue
    /\ now \in 0..MaxStopValue
    /\ completionSignalCount \in 0..2
    /\ pc = "checkStop"
    /\ fnIn = NoFn
    /\ fnOut = NoFn
    /\ IdleRun
    /\ NoNotes

ApplyCheckStop ==
    /\ pc = "checkStop"
    /\ fnOut' = checkStopConditions(config, CurrentStopState)
    /\ pc' = "applied"
    /\ UNCHANGED <<config, notesFile, result, iteration, started, totalCost, completionSignalCount,
                   now, stopReason, iterErr, branchVars, ops, outputs, push,
                   waitVars, summary, fnIn>>

StopSpec == InitStop /\ [][ApplyCheckStop]_vars

InitSignal ==
    /\ config \in {c \in Configs : c.MaxRuns = 1 /\ c.MaxCost = 0
                       /\ c.MaxDuration = 0 /\ c.CompletionThreshold = 1
                       /\ ~c.DisableCommits /\ ~c.DryRun}
    /\ iteration = 0
    /\ totalCost = 0
    /\ now = 0
    /\ completionSignalCount = 0
    /\ pc = "containsSignal"
    /\ fnIn \in [output : StringsUpTo(MaxStrLen), signal : StringsUpTo(2)]
    /\ fnOut = NoFn
    /\ IdleRun
    /\ NoNotes

ApplyContainsCompletionSignal ==
    /\ pc = "containsSignal"
    /\ fnOut' = ContainsCompletionSignal(fnIn.output, fnIn.signal)
    /\ pc' = "applied"
    /\ UNCHANGED <<config, notesFile, result, iteration, started, totalCost, completionSignalCount,
                   now, stopReason, iterErr, branchVars, ops, outputs, push,
                   waitVars, summary, fnIn>>

SignalSpec == InitSignal /\ [][ApplyContainsCompletionSignal]_vars

\* Raw check states gh can report: the eleven GetPRStatus names and one it
\* does not name.
CheckStates == PassedStates \cup PendingStates \cup FailedStates \cup {"STALE"}

\* Review decisions gh can report ("" = no review required or none yet).
ReviewDecisions == {"", "APPROVED", "CHANGES_REQUESTED", "REVIEW_REQUIRED"}

RECURSIVE ChecksUpTo(_)
ChecksUpTo(n) ==
    IF n = 0 THEN {<<>>}
    ELSE LET shorter == ChecksUpTo(n - 1)
         IN  shorter \cup {Append(cs, st) : cs \in {t \in shorter : Len(t) = n - 1},
                                            st \in CheckStates}

\* GetPRStatus on the answers of the two gh queries.
InitStatus ==
    /\ config \in {c \in Configs : c.MaxRuns = 1 /\ c.MaxCost = 0
                       /\ c.MaxDuration = 0 /\ c.CompletionThreshold = 1
                       /\ c.MergeStrategy = "squash"
                       /\ ~c.DisableCommits /\ ~c.DryRun}
    /\ iteration = 0
    /\ totalCost = 0
    /\ now = 0
    /\ completionSignalCount = 0
    /\ pc = "getPRStatus"
    /\ fnIn \in [checks : ChecksUpTo(MaxChecks), reviewDecision : ReviewDecisions]
    /\ fnOut = NoFn
    /\ IdleRun
    /\ NoNotes

ApplyGetPRStatus ==
    /\ pc = "getPRStatus"
    /\ fnOut' = GetPRStatus(fnIn.checks, fnIn.reviewDecision)
    /\ pc' = "applied"
    /\ UNCHANGED <<config, notesFile, result, iteration, started, totalCost, completionSignalCount,
                   now, stopReason, iterErr, branchVars, ops, outputs, push,
                   waitVars, summary, fnIn>>

StatusSpec == InitStatus /\ [][ApplyGetPRStatus]_vars

\* What git push can answer in one attempt (<<>> = success): one error text
\* for each signature of isNetworkError and two rejections by the remote,
\* one of them on a branch whose generated name happens to hold "443".
PushAnswers ==
    {<<>>,
     <<"fatal:", "Could not resolve host", "github.com">>,
     <<"Failed to connect", "Connection refused">>,
     <<"Network is unreachable">>,
     <<"Connection timed out">>,
     <<"SSL", "certificate problem">>,
     <<"rejected", "non-fast-forward">>,
     <<"rejected", "iteration-2/2025-01-01-ab", "443", "cd0", "non-fast-forward">>}

\* PushWithRetry(branch, maxRetries) against a remote whose answers to the
\* successive attempts are fixed in advance.
InitPush ==
    /\ config \in {c \in Configs : c.MaxRuns = 1 /\ c.MaxCost = 0
                       /\ c.MaxDuration = 0 /\ c.CompletionThreshold = 1
                       /\ c.MergeStrategy = "squash"
                       /\ ~c.DisableCommits /\ ~c.DryRun}
    /\ iteration = 0
    /\ totalCost = 0
    /\ now = 0
    /\ completionSignalCount = 0
    /\ pc = "pushWithRetry"
    /\ fnIn \in UNION {[maxRetries : {n}, answers : [1..(n + 1) -> PushAnswers]] :
                          n \in 0..MaxPushRetries}
    /\ fnOut = NoFn
    /\ IdleRun
    /\ NoNotes

\* One pass of the loop of PushWithRetry; the call returns on a success,
\* on a non-network error and when the retries are used up.
ApplyPushAttempt ==
    /\ pc = "pushWithRetry"
    /\ LET pushErr == fnIn.answers[push.attempts + 1]
           p == PushLoopBody(push, pushErr, fnIn.maxRetries)
       IN  /\ push' = p
           /\ IF pushErr = <<>> \/ p.err # ""
                  THEN /\ pc' = "applied"
                       /\ fnOut' = p.err
                  ELSE /\ pc' = pc
                       /\ fnOut' = fnOut
    /\ UNCHANGED <<config, notesFile, result, iteration, started, totalCost, completionSignalCount,
                   now, stopReason, iterErr, branchVars, ops, outputs,
                   waitVars, summary, fnIn>>

PushSpec == InitPush /\ [][ApplyPushAttempt]_vars

\* Configurations as runMain builds them from the command line, before
\* Validate has seen them.
RawConfigs ==
    [Prompt : {<<>>, <<"a">>},
     MaxRuns : (0 - 1)..MaxLimit,
     MaxCost : ((0 - 1)..MaxLimit) \cup {NaN},
     MaxDuration : (0 - 1)..MaxLimit,
     CompletionThreshold : 0..2,
     CompletionSignal : {Phrase},
     MergeStrategy : MergeStrategies \cup {"", "fast-forward"},
     DisableCommits : {FALSE},
     DryRun : {FALSE}]

InitValidate ==
    /\ config \in RawConfigs
    /\ iteration = 0
    /\ totalCost = 0
    /\ now = 0
    /\ completionSignalCount = 0
    /\ pc = "validate"
    /\ fnIn = NoFn
    /\ fnOut = NoFn
    /\ IdleRun
    /\ NoNotes

ApplyValidate ==
    /\ pc = "validate"
    /\ fnOut' = Validate(config)
    /\ pc' = "applied"
    /\ UNCHANGED <<config, notesFile, result, iteration, started, totalCost, completionSignalCount,
                   now, stopReason, iterErr, branchVars, ops, outputs, push,
                   waitVars, summary, fnIn>>

ValidateSpec == InitValidate /\ [][ApplyValidate]_vars

\* BuildPrompt on goals, notes and completion phrases of a few characters.
InitPrompt ==
    /\ config \in {c \in Configs : c.MaxRuns = 1 /\ c.MaxCost = 0
                       /\ c.MaxDuration = 0 /\ c.CompletionThreshold = 1
                       /\ c.MergeStrategy = "squash"
                       /\ ~c.DisableCommits /\ ~c.DryRun}
    /\ iteration = 0
    /\ totalCost = 0
    /\ now = 0
    /\ completionSignalCount = 0
    /\ pc = "buildPrompt"
    /\ fnIn \in [userPrompt : StringsUpTo(MaxPromptLen),
                 notesContent : StringsUpTo(MaxPromptLen),
                 completionSignal : {<<>>, <<"A">>, Phrase},
                 iteration : 1..MaxPromptIter]
    /\ fnOut = NoFn
    /\ IdleRun
    /\ NoNotes

ApplyBuildPrompt ==
    /\ pc = "buildPrompt"
    /\ fnOut' = BuildPrompt(fnIn.userPrompt, fnIn.notesContent,
                            fnIn.completionSignal, fnIn.iteration)
    /\ pc' = "applied"
    /\ UNCHANGED <<config, notesFile, result, iteration, started, totalCost, completionSignalCount,
                   now, stopReason, iterErr, branchVars, ops, outputs, push,
                   waitVars, summary, fnIn>>

PromptSpec == InitPrompt /\ [][ApplyBuildPrompt]_vars

\* notes.Manager on a file that is <<>> (absent) or <<content>>.
NotesExists(file) == file # <<>>

\* Manager.Read: "" for a missing file and, as runIteration drops the
\* error, for one that cannot be read.
NotesRead(file, readFails) ==
    IF ~NotesExists(file) THEN <<>>
    ELSE IF readFails THEN <<>>
    ELSE file[1]

\* Manager.Write: the file holds content afterwards unless the write fails.
NotesWrite(file, content, writeFails) ==
    IF writeFails THEN file ELSE <<content>>

NotesTemplate(projectGoal) ==
    <<"# Shared Task Notes\n\n## Project Goal\n">> \o projectGoal
        \o <<"\n\n## Current Status\n- Iteration 1 starting\n">>

\* Manager.Initialize: an existing file is left alone, a missing one is
\* created from the template.
NotesInitialize(file, projectGoal, writeFails) ==
    IF NotesExists(file) THEN file
    ELSE NotesWrite(file, NotesTemplate(projectGoal), writeFails)

\* What the agent can have made of the notes file after one invocation.
AgentNotes == {<<>>, <<<<"b">>>>}

\* Run followed on the notes file only, started before the prelude of Run
\* in a working copy where the file may exist already; the steps of
\* runIteration that publish and review the change do not touch the file
\* and are left out.
InitNotes ==
    /\ config \in {c \in Configs : HasMaxRuns(c) /\ c.MaxCost = 0
                       /\ c.MaxDuration = 0 /\ c.MergeStrategy = "squash"
                       /\ ~c.DisableCommits /\ c.DryRun}
    /\ iteration = 0
    /\ totalCost = 0
    /\ now = 0
    /\ completionSignalCount = 0
    /\ pc = "run"
    /\ notesFile \in {<<>>, <<<<>>>>, <<<<"a">>>>}
    /\ fnIn = NoFn
    /\ fnOut = NoFn
    /\ IdleRun

\* Run, before the loop: o.notes.Initialize(o.config.Prompt), a failure of
\* which is only a warning.
RunInitializeNotes ==
    /\ pc = "run"
    /\ \E writeFails \in BOOLEAN :
           notesFile' = NotesInitialize(notesFile, config.Prompt, writeFails)
    /\ pc' = "loop"
    /\ UNCHANGED <<config, result, iteration, started, totalCost, completionSignalCount,
                   now, stopReason, iterErr, branchVars, ops, outputs, push,
                   waitVars, summary, fnVars>>

\* Top of the loop: o.iteration++ and the stop check.
NotesLoop ==
    /\ pc = "loop"
    /\ iteration' = iteration + 1
    /\ LET r == checkStopConditions(config,
                    StopState(iteration + 1, totalCost, now, completionSignalCount))
       IN  /\ stopReason' = r.reason
           /\ pc' = IF r.stop THEN "done" ELSE "readNotes"
    /\ UNCHANGED <<config, notesFile, result, started, totalCost, completionSignalCount,
                   now, iterErr, branchVars, ops, outputs, push,
                   waitVars, summary, fnVars>>

\* runIteration: notesContent, _ := o.notes.Read() and the prompt built
\* from it.
NotesReadForPrompt ==
    /\ pc = "readNotes"
    /\ \E readFails \in BOOLEAN :
           fnOut' = BuildPrompt(config.Prompt, NotesRead(notesFile, readFails),
                                config.CompletionSignal, iteration)
    /\ pc' = "agent"
    /\ UNCHANGED <<config, notesFile, result, iteration, started, totalCost,
                   completionSignalCount, now, stopReason, iterErr, branchVars,
                   ops, outputs, push, waitVars, summary, fnIn>>

\* claude.Run: the agent, told by the prompt to update the notes, leaves
\* the file as it is, rewrites it or removes it.
NotesAgent ==
    /\ pc = "agent"
    /\ notesFile' \in {notesFile} \cup AgentNotes
    /\ fnOut' = NoFn
    /\ pc' = "loop"
    /\ UNCHANGED <<config, result, iteration, started, totalCost, completionSignalCount,
                   now, stopReason, iterErr, branchVars, ops, outputs, push,
                   waitVars, summary, fnIn>>

NotesNext ==
    \/ RunInitializeNotes
    \/ NotesLoop
    \/ NotesReadForPrompt
    \/ NotesAgent

NotesSpec == InitNotes /\ [][NotesNext]_vars

\* The characters of the texts given to ParseDuration: digits, the three
\* unit letters, a sign and a letter that belongs to no unit.
DurChars == {"0", "1", "2", "h", "m", "s", "-", "x"}

RECURSIVE DurStringsUpTo(_)
DurStringsUpTo(n) ==
    IF n = 0 THEN {<<>>}
    ELSE LET shorter == DurStringsUpTo(n - 1)
         IN  shorter \cup {Append(t, c) : t \in {u \in shorter : Len(u) = n - 1},
                                          c \in DurChars}

\* ParseDuration on a text, or FormatDuration on a whole number of seconds
\* followed by ParseDuration on its result.
InitDuration ==
    /\ config \in {c \in Configs : c.MaxRuns = 1 /\ c.MaxCost = 0
                       /\ c.MaxDuration = 0 /\ c.CompletionThreshold = 1
                       /\ c.MergeStrategy = "squash"
                       /\ ~c.DisableCommits /\ ~c.DryRun}
    /\ iteration = 0
    /\ totalCost = 0
    /\ now = 0
    /\ completionSignalCount = 0
    /\ \/ /\ pc = "parseDuration"
          /\ fnIn \in [s : DurStringsUpTo(MaxDurLen)]
       \/ /\ pc = "formatDuration"
          /\ fnIn \in [d : {k * Second : k \in 0..MaxDurSeconds}]
    /\ fnOut = NoFn
    /\ IdleRun
    /\ NoNotes

ApplyParseDuration ==
    /\ pc = "parseDuration"
    /\ fnOut' = ParseDuration(fnIn.s)
    /\ pc' = "applied"
    /\ UNCHANGED <<config, notesFile, result, iteration, started, totalCost,
                   completionSignalCount, now, stopReason, iterErr, branchVars,
                   ops, outputs, push, waitVars, summary, fnIn>>

ApplyFormatDuration ==
    /\ pc = "formatDuration"
    /\ fnOut' = [text |-> FormatDuration(fnIn.d),
                 parsed |-> ParseDuration(FormatDuration(fnIn.d))]
    /\ pc' = "applied"
    /\ UNCHANGED <<config, notesFile, result, iteration, started, totalCost,
                   completionSignalCount, now, stopReason, iterErr, branchVars,
                   ops, outputs, push, waitVars, summary, fnIn>>

DurationNext == ApplyParseDuration \/ ApplyFormatDuration

DurationSpec == InitDuration /\ [][DurationNext]_vars

\* DefaultConfig, with the prompt and the limits a caller then sets on the
\* configuration it got, followed by Validate.
InitDefaults ==
    /\ config \in {c \in Configs : c.MaxRuns = 1 /\ c.MaxCost = 0
                       /\ c.MaxDuration = 0 /\ c.CompletionThreshold = 1
                       /\ c.MergeStrategy = "squash"
                       /\ ~c.DisableCommits /\ ~c.DryRun}
    /\ iteration = 0
    /\ totalCost = 0
    /\ now = 0
    /\ completionSignalCount = 0
    /\ pc = "defaultConfig"
    /\ fnIn \in [Prompt : {<<>>, <<"a">>},
                 MaxRuns : (0 - 1)..MaxLimit,
                 MaxCost : ((0 - 1)..MaxLimit) \cup {NaN},
                 MaxDuration : (0 - 1)..MaxLimit]
    /\ fnOut = NoFn
    /\ IdleRun
    /\ NoNotes

ApplyDefaultConfig ==
    /\ pc = "defaultConfig"
    /\ LET cfg == [DefaultConfig EXCEPT !.Prompt = fnIn.Prompt,
                                        !.MaxRuns = fnIn.MaxRuns,
                                        !.MaxCost = fnIn.MaxCost,
                                        !.MaxDuration = fnIn.MaxDuration]
       IN  fnOut' = [cfg |-> cfg, err |-> Validate(cfg)]
    /\ pc' = "applied"
    /\ UNCHANGED <<config, notesFile, result, iteration, started, totalCost,
                   completionSignalCount, now, stopReason, iterErr, branchVars,
                   ops, outputs, push, waitVars, summary, fnIn>>

DefaultsSpec == InitDefaults /\ [][ApplyDefaultConfig]_vars

GenerateBranchNameNoIndex(prefix, n, date, hash) ==
    prefix \o <<"iteration-">> \o <<"/">> \o date \o <<"-">> \o hash

\* git.GenerateBranchName: fmt.Sprintf("%siteration-%d/%s-%s", prefix,
\* iteration, date, hash), character by character but for "iteration-".
GenerateBranchName(prefix, n, date, hash) ==
    prefix \o <<"iteration-">> \o Itoa(n) \o <<"/">> \o date \o <<"-">> \o hash

\* time.Now().Format("2006-01-02") on the day the run starts and the day
\* after.
BranchDates ==
    {<<"2", "0", "2", "5", "-", "1", "1", "-", "1", "5">>,
     <<"2", "0", "2", "5", "-", "1", "1", "-", "1", "6">>}

\* generateShortHash: eight hex digits; all zero when rand.Read fails.
BranchHashes ==
    {<<"0", "0", "0", "0", "0", "0", "0", "0">>,
     <<"b", "e", "9", "3", "9", "8", "7", "3">>}

BranchPrefixes == {<<>>, <<"d", "c", "/">>}

\* What the clock and the random source give one call: both hashes on the
\* first day, and the hash that repeats on the second.
BranchStamps ==
    {st \in [date : BranchDates, hash : BranchHashes] :
        st.hash = <<"0", "0", "0", "0", "0", "0", "0", "0">> \/ st.date[10] = "5"}

\* The steps of a run that name its branches: fnIn holds the configured
\* prefix, fnOut the names generated so far, oldest first.
InitBranchNames ==
    /\ config \in {c \in Configs : c.MaxRuns = 1 /\ c.MaxCost = 0
                       /\ c.MaxDuration = 0 /\ c.CompletionThreshold = 1
                       /\ c.MergeStrategy = "squash"
                       /\ ~c.DisableCommits /\ ~c.DryRun}
    /\ iteration = 0
    /\ totalCost = 0
    /\ now = 0
    /\ completionSignalCount = 0
    /\ pc = "generateBranchName"
    /\ fnIn \in [GitBranchPrefix : BranchPrefixes]
    /\ fnOut = <<>>
    /\ IdleRun
    /\ NoNotes

\* o.iteration++ at the top of the loop, then the first statement of
\* runIteration: branchName := GenerateBranchName(prefix, o.iteration).
GenerateNextBranchName ==
    /\ pc = "generateBranchName"
    /\ iteration < MaxNameIter
    /\ iteration' = iteration + 1
    /\ \E st \in BranchStamps :
           fnOut' = Append(fnOut, GenerateBranchName(fnIn.GitBranchPrefix,
                                                     iteration + 1, st.date, st.hash))
    /\ UNCHANGED <<config, notesFile, result, started, totalCost,
                   completionSignalCount, now, pc, stopReason, iterErr, branchVars,
                   ops, outputs, push, waitVars, summary, fnIn>>

BranchNameSpec == InitBranchNames /\ [][GenerateNextBranchName]_vars

----------------------------------------------------------------------------
(* Properties *)

RunEnded == pc \in {"done", "crashed"}

InIteration ==
    pc \in {"createBranch", "agent", "stage", "commit", "push", "createPR",
            "wait", "handle"}

\* C1: a failure at any step of an iteration, a failed status query while
\* polling the pull request included, ends only that iteration: Run never
\* crashes and control comes back to the stop check of the outer loop.
C1_FailureEndsOnlyIteration == pc # "crashed"

\* C2: with MaxRuns = M > 0 runIteration is started at most M times, exactly
\* M times when the run stops because of the iteration ceiling, failed
\* iterations counted like successful ones; and a run whose iterations all
\* return to Run eventually leaves the loop and returns.
C2_MaxRunsBoundsIterations ==
    /\ [](HasMaxRuns(config) => started <= config.MaxRuns)
    /\ []((pc = "done" /\ stopReason = ReasonMaxRuns) => started = config.MaxRuns)
    /\ [](InIteration => started = iteration)
    /\ (HasMaxRuns(config) => <>RunEnded)

C2_Witness ==
    /\ pc = "done"
    /\ stopReason = ReasonMaxRuns
    /\ config.MaxRuns = 2
    /\ started = 2
    /\ iterErr # ""

\* The other three conditions of the limit policy, stated on the counters.
CostReached == config.MaxCost > 0 /\ totalCost >= config.MaxCost
DurationReached == config.MaxDuration > 0 /\ now >= config.MaxDuration
ThresholdReached == completionSignalCount >= config.CompletionThreshold
RunsExceeded == config.MaxRuns > 0 /\ iteration > config.MaxRuns

\* C3: when no cost, duration or completion condition holds and the
\* iteration ceiling is M > 0, checkStopConditions answers stop = false for
\* index N <= M and stop = true for N > M; with M = 0 the index never stops
\* the loop.
C3_IterationCeiling ==
    (pc = "applied" /\ ~CostReached /\ ~DurationReached /\ ~ThresholdReached)
        => /\ config.MaxRuns > 0 => (fnOut.stop <=> iteration > config.MaxRuns)
           /\ config.MaxRuns = 0 => ~fnOut.stop

C3_Witness ==
    /\ pc = "applied"
    /\ ~CostReached /\ ~DurationReached /\ ~ThresholdReached
    /\ config.MaxRuns = 2
    /\ iteration = 2
    /\ ~fnOut.stop

\* C4: a cost ceiling C > 0 stops the loop exactly when the accumulated cost
\* is >= C and a duration ceiling D > 0 exactly when the elapsed time is
\* >= D, the boundary value included; a ceiling of 0 never stops the loop.
C4_CostAndDurationCeilings ==
    pc = "applied"
        => /\ CostReached => fnOut.stop
           /\ DurationReached => fnOut.stop
           /\ fnOut.reason = ReasonMaxCost
                  <=> (CostReached /\ ~RunsExceeded)
           /\ fnOut.reason = ReasonMaxDuration
                  <=> (DurationReached /\ ~RunsExceeded /\ ~CostReached)
           /\ config.MaxCost = 0 => fnOut.reason # ReasonMaxCost
           /\ config.MaxDuration = 0 => fnOut.reason # ReasonMaxDuration

C4_Witness ==
    /\ pc = "applied"
    /\ config.MaxCost = 2
    /\ totalCost = 2
    /\ fnOut = [stop |-> TRUE, reason |-> ReasonMaxCost]

\* C5: the conditions are tested in the order iteration ceiling, cost
\* ceiling, duration ceiling, completion threshold and the first one that
\* holds gives the reason; when none holds the answer is stop = false with
\* an empty reason; the evaluation changes none of iteration, totalCost and
\* completionSignalCount.
C5_FirstConditionWins ==
    /\ [](pc = "applied" =>
            fnOut = IF RunsExceeded THEN [stop |-> TRUE, reason |-> ReasonMaxRuns]
                    ELSE IF CostReached THEN [stop |-> TRUE, reason |-> ReasonMaxCost]
                    ELSE IF DurationReached
                        THEN [stop |-> TRUE, reason |-> ReasonMaxDuration]
                    ELSE IF ThresholdReached
                        THEN [stop |-> TRUE, reason |-> ReasonCompletion]
                    ELSE [stop |-> FALSE, reason |-> ""])
    /\ [][pc = "checkStop" =>
            UNCHANGED <<iteration, totalCost, completionSignalCount>>]_vars

C5_Witness ==
    /\ pc = "applied"
    /\ RunsExceeded /\ CostReached /\ DurationReached /\ ThresholdReached
    /\ fnOut.reason = ReasonMaxRuns

\* C6: the stop conditions are evaluated before any work of the cycle: a
\* cycle whose evaluation says stop leaves the loop, and from then on no
\* branch is created, the agent is not invoked and no git or GitHub
\* operation is performed.
C6_StopBeforeWork ==
    /\ [][(pc = "loop" /\ checkStopConditions(config,
               StopState(iteration + 1, totalCost, now, completionSignalCount)).stop)
            => pc' = "done"]_vars
    /\ [][pc' = "done"
            => UNCHANGED <<ops, outputs, curBranch, branchedFrom, started,
                           totalCost>>]_vars

C6_Witness ==
    /\ pc = "done"
    /\ stopReason = ReasonMaxCost
    /\ totalCost >= config.MaxCost
    /\ started >= 1
    /\ ops # <<>>

\* An exact, case-sensitive occurrence of signal in output.
OccursIn(signal, output) ==
    \E i \in 1..(Len(output) - Len(signal) + 1) :
        \A j \in 1..Len(signal) : output[i + j - 1] = signal[j]

\* Number of agent outputs at the end of the run's history that carry the
\* completion phrase.
RECURSIVE TrailingMatches(_, _)
TrailingMatches(outs, signal) ==
    IF outs = <<>> THEN 0
    ELSE IF signal # <<>> /\ OccursIn(signal, outs[Len(outs)])
        THEN 1 + TrailingMatches(SubSeq(outs, 1, Len(outs) - 1), signal)
    ELSE 0

\* C7: completionSignalCount is set to 0 by every cycle whose agent output
\* lacks the completion phrase and incremented by 1 by every cycle whose
\* output carries it, so it equals the number of consecutive matching
\* outputs seen last; once it has reached the threshold the agent is not
\* invoked again and the next evaluation stops the loop.
C7_ConsecutiveCompletionSignals ==
    /\ [](completionSignalCount = TrailingMatches(outputs, config.CompletionSignal))
    /\ [][Len(outputs') = Len(outputs) + 1 =>
            completionSignalCount' =
                IF /\ config.CompletionSignal # <<>>
                   /\ OccursIn(config.CompletionSignal, outputs'[Len(outputs')])
                    THEN completionSignalCount + 1
                    ELSE 0]_vars
    /\ [][ThresholdReached => outputs' = outputs]_vars
    /\ [][(pc = "loop" /\ ThresholdReached) => pc' = "done"]_vars

C7_Witness ==
    /\ pc = "done"
    /\ stopReason = ReasonCompletion
    /\ config.CompletionThreshold = 2
    /\ completionSignalCount = 2
    /\ Len(outputs) = 2

\* C8: ContainsCompletionSignal(output, signal) is true exactly when signal
\* is not empty and occurs in output as an exact, case-sensitive substring.
C8_ContainsCompletionSignal ==
    pc = "applied"
        => (fnOut <=> (fnIn.signal # <<>> /\ OccursIn(fnIn.signal, fnIn.output)))

C8_Witness ==
    /\ pc = "applied"
    /\ fnIn.signal = <<"a", "b">>
    /\ fnIn.output = <<"b", "a", "b">>
    /\ fnOut = TRUE

\* C9 as claimed: the summary says "goal satisfied" exactly when the reason
\* chosen by checkStopConditions is the completion threshold.
C9_StatusAgreesWithStopReason ==
    pc = "done" =>
        (summary[Len(summary)].completed <=> stopReason = ReasonCompletion)

\* C9, amended: the summary says "goal satisfied" exactly when the
\* completion threshold is reached when the loop ends: every stop because
\* of the threshold is reported as goal satisfied, and every "limit reached"
\* report follows a stop by the iteration, cost or duration ceiling.
C9_StatusFollowsThreshold ==
    pc = "done" =>
        LET completed == summary[Len(summary)].completed
        IN  /\ completed <=>
                  (TrailingMatches(outputs, config.CompletionSignal)
                       >= config.CompletionThreshold)
            /\ stopReason = ReasonCompletion => completed
            /\ ~completed =>
                  stopReason \in {ReasonMaxRuns, ReasonMaxCost, ReasonMaxDuration}

C9_Witness ==
    /\ pc = "done"
    /\ summary[Len(summary)].completed
    /\ stopReason = ReasonCompletion

\* C10: once the loop is entered, every run that ends has printed the final
\* summary exactly once, whatever failed in its iterations.
C10_SummaryPrintedOnce == RunEnded => Len(summary) = 1

----------------------------------------------------------------------------
(* Properties of the handling of the pull request *)

\* The operations the step appends to the log of the iteration.
NewOps ==
    IF Len(ops') >= Len(ops) /\ SubSeq(ops', 1, Len(ops)) = ops
        THEN SubSeq(ops', Len(ops) + 1, Len(ops'))
        ELSE ops'

MergeOps == {MergePR(s) : s \in MergeStrategies}
CloseOps == {ClosePR(d) : d \in BOOLEAN}

MergeInvoked == \E i \in 1..Len(NewOps) : NewOps[i] \in MergeOps
CloseInvoked == \E i \in 1..Len(NewOps) : NewOps[i] \in CloseOps

\* The classification of the checks of a snapshot, read off its raw states.
ClassifiedPending(st) ==
    \E i \in 1..Len(st.Checks) :
        st.Checks[i] \in {"PENDING", "QUEUED", "IN_PROGRESS"}

ClassifiedFailed(st) ==
    \E i \in 1..Len(st.Checks) :
        st.Checks[i] \in {"FAILURE", "ERROR", "CANCELLED", "TIMED_OUT",
                          "ACTION_REQUIRED"}

ReviewAllowsMerge(st) == st.ReviewDecision \in {"", "APPROVED"}

EndsWith(log, tail) ==
    /\ Len(log) >= Len(tail)
    /\ SubSeq(log, Len(log) - Len(tail) + 1, Len(log)) = tail

\* C11: MergePR is invoked only on a final snapshot of WaitForChecks that
\* has no pending check, no failed check and a review decision that is
\* empty or APPROVED: a pull request with a failed or pending check, or with
\* changes requested, is never merged.
C11_MergeOnlyWhenMergeable ==
    [][MergeInvoked =>
          /\ pc = "handle"
          /\ status # <<>>
          /\ ~ClassifiedPending(status[1])
          /\ ~ClassifiedFailed(status[1])
          /\ ReviewAllowsMerge(status[1])]_vars

C11_Witness ==
    /\ pc = "loop"
    /\ config.MergeStrategy = "rebase"
    /\ Len(ops) >= 3
    /\ ops[Len(ops) - 2] = MergePR("rebase")
    /\ waitErr = ""

\* C12: when the final snapshot has a failed check the iteration closes the
\* pull request asking for the branch to be deleted, switches back to the
\* base branch and ends without error and without a merge.
C12_FailedChecksClosePR ==
    [][(pc = "handle" /\ status # <<>> /\ ClassifiedFailed(status[1])) =>
          /\ NewOps = <<ClosePR(TRUE), "SwitchBranch">>
          /\ ~MergeInvoked
          /\ pc' = "loop"
          /\ iterErr' = ""]_vars

C12_Witness ==
    /\ pc = "loop"
    /\ EndsWith(ops, <<"WaitForChecks", ClosePR(TRUE), "SwitchBranch">>)
    /\ iterErr = ""
    /\ curBranch = BaseBranch

\* C13: when all checks passed but the review decision is neither empty
\* nor APPROVED the iteration neither merges nor closes the pull request,
\* switches back to the base branch and ends without error.
C13_NotMergeableLeftOpen ==
    [][(/\ pc = "handle"
        /\ status # <<>>
        /\ ~ClassifiedPending(status[1])
        /\ ~ClassifiedFailed(status[1])
        /\ ~ReviewAllowsMerge(status[1])) =>
          /\ NewOps = <<"SwitchBranch">>
          /\ ~MergeInvoked
          /\ ~CloseInvoked
          /\ pc' = "loop"
          /\ iterErr' = ""]_vars

C13_Witness ==
    /\ pc = "loop"
    /\ EndsWith(ops, <<"WaitForChecks", "SwitchBranch">>)
    /\ waitErr = ""
    /\ iterErr = ""
    /\ curBranch = BaseBranch

\* C14: when WaitForChecks ends by timeout, its last snapshot still having
\* a pending check, the iteration only warns: it neither merges nor closes
\* the pull request, switches back to the base branch and returns no error.
C14_TimeoutIsWarning ==
    /\ []((pc = "handle" /\ waitErr = TimeoutError) =>
            (status # <<>> /\ ClassifiedPending(status[1])))
    /\ [][(pc = "handle" /\ waitErr = TimeoutError) =>
            /\ NewOps = <<"SwitchBranch">>
            /\ ~MergeInvoked
            /\ ~CloseInvoked
            /\ pc' = "loop"
            /\ iterErr' = ""]_vars

C14_Witness ==
    /\ pc = "loop"
    /\ EndsWith(ops, <<"WaitForChecks", "SwitchBranch">>)
    /\ waitErr = TimeoutError
    /\ iterErr = ""
    /\ curBranch = BaseBranch

\* C15: on a mergeable final snapshot the iteration invokes MergePR with
\* the configured strategy, then the switch to the base branch, then the
\* pull, in this order; a failed merge ends the iteration with an error
\* before the switch, and a pull only ever follows a merge and a switch.
C15_MergeThenSwitchThenPull ==
    /\ [][(/\ pc = "handle"
           /\ status # <<>>
           /\ ~ClassifiedPending(status[1])
           /\ ~ClassifiedFailed(status[1])
           /\ ReviewAllowsMerge(status[1])) =>
             \/ /\ NewOps = <<MergePR(config.MergeStrategy), "SwitchBranch", "Pull">>
                /\ iterErr' = ""
             \/ /\ NewOps = <<MergePR(config.MergeStrategy)>>
                /\ iterErr' = "failed to merge PR"]_vars
    /\ [](\A i \in 1..Len(ops) :
            ops[i] = "Pull" =>
                /\ i >= 3
                /\ ops[i - 1] = "SwitchBranch"
                /\ ops[i - 2] = MergePR(config.MergeStrategy))

C15_Witness ==
    /\ pc = "loop"
    /\ EndsWith(ops, <<MergePR("squash"), "SwitchBranch", "Pull">>)
    /\ iterErr = ""
    /\ curBranch = BaseBranch

----------------------------------------------------------------------------
(* Properties of GetPRStatus *)

Queried == [Checks |-> fnIn.checks]

\* C16: GetPRStatus raises HasPendingChecks exactly for a check in state
\* PENDING, QUEUED or IN_PROGRESS and HasFailedChecks exactly for one in
\* state FAILURE, ERROR, CANCELLED, TIMED_OUT or ACTION_REQUIRED; SUCCESS,
\* NEUTRAL, SKIPPED and every state it does not know raise neither flag, so
\* a pull request with only such checks counts as passed.
C16_CheckClassification ==
    pc = "applied" =>
        /\ fnOut.HasPendingChecks <=> ClassifiedPending(Queried)
        /\ fnOut.HasFailedChecks <=> ClassifiedFailed(Queried)
        /\ (\A i \in 1..Len(fnIn.checks) :
                fnIn.checks[i] \notin
                    {"PENDING", "QUEUED", "IN_PROGRESS", "FAILURE", "ERROR",
                     "CANCELLED", "TIMED_OUT", "ACTION_REQUIRED"})
             => /\ ~fnOut.HasPendingChecks
                /\ ~fnOut.HasFailedChecks
                /\ fnOut.AllChecksPassed

C16_Witness ==
    /\ pc = "applied"
    /\ fnIn.checks = <<"STALE", "SKIPPED">>
    /\ ~fnOut.HasPendingChecks
    /\ ~fnOut.HasFailedChecks
    /\ fnOut.AllChecksPassed

\* C17: AllChecksPassed = (no checks) or (no pending and no failed); a pull
\* request without checks has AllChecksPassed; one failed check gives
\* HasFailedChecks whatever the other checks are; HasFailedChecks and
\* AllChecksPassed are never both true.
C17_AllChecksPassed ==
    pc = "applied" =>
        /\ fnOut.AllChecksPassed <=>
              (Len(fnIn.checks) = 0
                   \/ (~fnOut.HasPendingChecks /\ ~fnOut.HasFailedChecks))
        /\ Len(fnIn.checks) = 0 => fnOut.AllChecksPassed
        /\ ClassifiedFailed(Queried) => fnOut.HasFailedChecks
        /\ ~(fnOut.HasFailedChecks /\ fnOut.AllChecksPassed)

C17_Witness ==
    /\ pc = "applied"
    /\ fnIn.checks = <<"SUCCESS", "TIMED_OUT">>
    /\ fnOut.HasFailedChecks
    /\ ~fnOut.AllChecksPassed

\* C18: IsMergeable holds exactly when AllChecksPassed holds and the review
\* decision is empty or APPROVED; CHANGES_REQUESTED, like any other
\* decision, makes it false even when all checks passed.
C18_IsMergeable ==
    pc = "applied" =>
        /\ fnOut.IsMergeable <=>
              (fnOut.AllChecksPassed /\ fnIn.reviewDecision \in {"", "APPROVED"})
        /\ fnIn.reviewDecision \notin {"", "APPROVED"} => ~fnOut.IsMergeable

C18_Witness ==
    /\ pc = "applied"
    /\ fnIn.checks = <<"SUCCESS", "NEUTRAL">>
    /\ fnIn.reviewDecision = "REVIEW_REQUIRED"
    /\ fnOut.AllChecksPassed
    /\ ~fnOut.IsMergeable

----------------------------------------------------------------------------
(* Properties of WaitForChecks *)

\* The step is a pass of the loop of WaitForChecks whose GetPRStatus
\* succeeded: it either sleeps and stays in the loop or returns no error.
Polled ==
    /\ pc = "wait"
    /\ \/ pc' = "wait" /\ lastStatus' # <<>> /\ now' # now
       \/ pc' = "handle" /\ waitErr' = "" /\ status' # <<>>

\* The snapshot that pass obtained.
Snapshot == IF pc' = "wait" THEN lastStatus'[1] ELSE status'[1]

\* C19: WaitForChecks returns without error, without sleeping and without
\* another poll right after the first poll whose snapshot has
\* HasFailedChecks or AllChecksPassed; a first poll that finds no pending
\* and no failed check and the decision APPROVED returns at once with
\* IsMergeable.
C19_ReturnsOnTerminalSnapshot ==
    /\ [][(Polled /\ (Snapshot.HasFailedChecks \/ Snapshot.AllChecksPassed)) =>
            /\ pc' = "handle"
            /\ waitErr' = ""
            /\ status' = <<Snapshot>>
            /\ now' = now
            /\ ops' = ops]_vars
    /\ [][(pc = "wait" /\ pc' = "handle" /\ waitErr' = "") =>
            /\ status' # <<>>
            /\ status'[1].HasFailedChecks \/ status'[1].AllChecksPassed]_vars
    /\ [][(/\ Polled
           /\ lastStatus = <<>>
           /\ ~ClassifiedPending(Snapshot)
           /\ ~ClassifiedFailed(Snapshot)
           /\ Snapshot.ReviewDecision = "APPROVED") =>
            /\ pc' = "handle"
            /\ waitErr' = ""
            /\ status'[1].IsMergeable
            /\ now' = now]_vars

C19_Witness ==
    /\ pc = "handle"
    /\ started = 1
    /\ now = 0
    /\ waitErr = ""
    /\ status # <<>>
    /\ status[1].Checks = <<"SUCCESS">>
    /\ status[1].ReviewDecision = "APPROVED"
    /\ status[1].IsMergeable

\* The four fields hasStatusChanged compares.
Differs(old, new) ==
    \/ old.AllChecksPassed # new.AllChecksPassed
    \/ old.HasPendingChecks # new.HasPendingChecks
    \/ old.HasFailedChecks # new.HasFailedChecks
    \/ old.ReviewDecision # new.ReviewDecision

\* C20: a poll of WaitForChecks invokes the change callback, once, exactly
\* when its snapshot differs from the snapshot of the poll before in
\* AllChecksPassed, HasPendingChecks, HasFailedChecks or ReviewDecision (the
\* first poll, which has no predecessor, always reports); when a check goes
\* from pending to failed between two polls the callback is invoked once
\* and WaitForChecks returns HasFailedChecks at once.
C20_CallbackOnChange ==
    /\ [][(Polled /\ lastStatus # <<>>) =>
            callbacks' = callbacks +
                (IF Differs(lastStatus[1], Snapshot) THEN 1 ELSE 0)]_vars
    /\ [][(Polled /\ lastStatus = <<>>) => callbacks' = callbacks + 1]_vars
    /\ [][(pc = "wait" /\ ~Polled) => callbacks' = callbacks]_vars
    /\ [][(/\ Polled
           /\ lastStatus # <<>>
           /\ lastStatus[1].Checks = <<"PENDING">>
           /\ Snapshot.Checks = <<"FAILURE">>) =>
            /\ callbacks' = callbacks + 1
            /\ pc' = "handle"
            /\ waitErr' = ""
            /\ status'[1].HasFailedChecks
            /\ now' = now]_vars

C20_Witness ==
    /\ pc = "handle"
    /\ waitErr = ""
    /\ status # <<>>
    /\ status[1].Checks = <<"FAILURE">>
    /\ status[1].HasFailedChecks
    /\ callbacks = 2

\* C21: when the deadline passes before a poll produced a terminal
\* snapshot, WaitForChecks returns the snapshot of the last poll together
\* with the timeout error, and that snapshot has neither HasFailedChecks nor
\* AllChecksPassed nor IsMergeable.
C21_TimeoutReturnsLastSnapshot ==
    /\ [][(pc = "wait" /\ ~(now < deadline)) =>
            /\ pc' = "handle"
            /\ waitErr' = TimeoutError
            /\ status' = lastStatus]_vars
    /\ [][(pc = "wait" /\ pc' = "handle" /\ waitErr' = TimeoutError) =>
            /\ ~(now < deadline)
            /\ status' # <<>>
            /\ ~status'[1].HasFailedChecks
            /\ ~status'[1].AllChecksPassed
            /\ ~status'[1].IsMergeable]_vars

C21_Witness ==
    /\ pc = "handle"
    /\ waitErr = TimeoutError
    /\ status # <<>>
    /\ status[1].ReviewDecision = "APPROVED"
    /\ status[1].HasPendingChecks
    /\ ~status[1].IsMergeable

\* C22: a failure of the checks query or of the review-decision query
\* fails the whole poll: GetPRStatus gives an error and no snapshot, and
\* WaitForChecks returns that error at once, with no snapshot and without
\* invoking the change callback for that poll.
C22_FailedPollReturnsNoSnapshot ==
    /\ \A checksFailed, reviewFailed \in BOOLEAN,
          checks \in PollChecks, decision \in PollDecisions :
           LET r == GetPRStatusResult(checksFailed, reviewFailed, checks, decision)
           IN  (checksFailed \/ reviewFailed) <=> (r.status = <<>> /\ r.err # "")
    /\ [][(/\ pc = "wait"
           /\ pc' = "handle"
           /\ waitErr' \in {ChecksQueryError, ReviewQueryError}) =>
            /\ status' = <<>>
            /\ callbacks' = callbacks
            /\ now' = now
            /\ ops' = ops]_vars

C22_Witness ==
    /\ pc = "handle"
    /\ waitErr = ReviewQueryError
    /\ status = <<>>
    /\ callbacks = 1

----------------------------------------------------------------------------
(* Properties of PushWithRetry *)

\* The network failures the retry policy is stated for: host resolution,
\* connection refused, unreachable network, connection timeout, TLS failure.
TransientSignatures ==
    {<<"Could not resolve host">>, <<"Connection refused">>,
     <<"Network is unreachable">>, <<"Connection timed out">>, <<"SSL">>}

IsTransient(err) ==
    /\ err # <<>>
    /\ \E sig \in TransientSignatures : OccursIn(sig, err)

\* The attempt that ends the call when only network failures are retried:
\* the first one that succeeds or fails otherwise, else the last one.
FinalAttempt(answers, n) ==
    IF \E j \in 1..(n + 1) : ~IsTransient(answers[j])
        THEN CHOOSE j \in 1..(n + 1) :
                 /\ ~IsTransient(answers[j])
                 /\ \A i \in 1..(j - 1) : IsTransient(answers[i])
        ELSE n + 1

\* C23: PushWithRetry(branch, N) invokes a push failing with a non-network
\* error once and returns its error; invokes a push that keeps failing
\* with a network error N+1 times; stops at the first success; sleeps
\* before no first attempt and 2, 4, 8, ... seconds before the retries.
C23_RetryCounts ==
    pc = "applied" =>
        LET n == fnIn.maxRetries
            k == FinalAttempt(fnIn.answers, n)
        IN  /\ push.attempts = k
            /\ (~IsTransient(fnIn.answers[1]) /\ fnIn.answers[1] # <<>>) =>
                   (push.attempts = 1 /\ push.err = "push")
            /\ (\A j \in 1..(n + 1) : IsTransient(fnIn.answers[j])) =>
                   (push.attempts = n + 1 /\ push.err = "retries")
            /\ fnIn.answers[k] = <<>> => push.err = ""
            /\ Len(push.delays) = push.attempts - 1
            /\ \A i \in 1..Len(push.delays) : push.delays[i] = 2 ^ i

\* C24: a failed attempt is treated as transient, hence retried while
\* retries are left, exactly when its error text carries one of the five
\* network-failure signatures.
C24_TransientClassification ==
    pc = "applied" =>
        \A j \in 1..push.attempts :
            fnIn.answers[j] # <<>> =>
                ((j < push.attempts \/ push.err = "retries")
                    <=> IsTransient(fnIn.answers[j]))

\* C25 as claimed: the aggregate error names the number of attempts made.
C25_ReportsAttempts ==
    (pc = "applied" /\ push.err = "retries") =>
        /\ push.reported = push.attempts
        /\ push.wrapped = fnIn.answers[push.attempts]

\* C25, amended: when every attempt failed with an error isNetworkError
\* accepts, the aggregate error names maxRetries, the number of retries
\* made, one less than the maxRetries + 1 attempts made, and wraps the
\* error of the last attempt.
C25_ReportsRetries ==
    (pc = "applied" /\ push.err = "retries") =>
        /\ push.reported = fnIn.maxRetries
        /\ push.reported = Len(push.delays)
        /\ push.attempts = fnIn.maxRetries + 1
        /\ push.reported = push.attempts - 1
        /\ push.wrapped = fnIn.answers[push.attempts]
        /\ \A j \in 1..push.attempts : isNetworkError(fnIn.answers[j])

C25_Witness ==
    /\ pc = "applied"
    /\ push.err = "retries"
    /\ fnIn.maxRetries = 2
    /\ push.attempts = 3
    /\ push.reported = 2
    /\ push.wrapped = <<"Connection timed out">>

----------------------------------------------------------------------------
(* Properties of the steps of an iteration *)

PublishOps == {"RunCommit", "PushWithRetry", "CreatePR"} \cup MergeOps \cup CloseOps

\* C26: with DisableCommits or DryRun set no iteration creates a commit,
\* pushes, creates a pull request, merges or closes one: the iteration ends
\* right after the agent invocation, without error.
C26_NoPublishModes ==
    /\ []((config.DisableCommits \/ config.DryRun) =>
            \A i \in 1..Len(ops) : ops[i] \notin PublishOps)
    /\ [][(pc = "agent" /\ (config.DisableCommits \/ config.DryRun)) =>
            /\ pc' = "loop"
            /\ iterErr' = ""
            /\ Len(outputs') = Len(outputs) + 1]_vars

C26_Witness ==
    /\ pc = "loop"
    /\ config.DryRun
    /\ ~config.DisableCommits
    /\ started = 2
    /\ ops = <<"CreateBranch", "Run", "SwitchBranch", "DeleteBranch">>

\* C27: in the three no-publish cases (DisableCommits, DryRun, nothing to
\* commit after staging) the iteration ends by switching back to the base
\* branch and deleting the feature branch.
C27_BranchDiscarded ==
    [][(\/ pc = "agent" /\ (config.DisableCommits \/ config.DryRun)
        \/ pc = "stage" /\ pc' = "loop" /\ iterErr' = "") =>
          EndsWith(ops', <<"SwitchBranch", "DeleteBranch">>)]_vars

\* C28: when PushWithRetry fails, on a permanent error or with its retries
\* used up, the iteration ends with an error, no pull request is created
\* and the feature branch is neither left nor deleted nor closed.
C28_PushFailureLeavesBranch ==
    /\ [][(pc = "push" /\ push'.err # "") =>
            /\ pc' = "loop"
            /\ iterErr' = "failed to push"
            /\ NewOps \in {<<>>, <<"PushWithRetry">>}
            /\ curBranch' = curBranch]_vars
    /\ []((pc = "loop" /\ iterErr = "failed to push") =>
            /\ curBranch = "feature"
            /\ \A i \in 1..Len(ops) :
                   ops[i] \notin {"CreatePR", "SwitchBranch", "DeleteBranch"}
                                  \cup MergeOps \cup CloseOps)

C28_Witness ==
    /\ pc = "loop"
    /\ iterErr = "failed to push"
    /\ push.err = "retries"
    /\ push.attempts = PushMaxRetries + 1
    /\ curBranch = "feature"
    /\ EndsWith(ops, <<"RunCommit", "PushWithRetry">>)

\* C29: the cost of every agent invocation is added to totalCost whatever
\* the invocation reports, an agent error or a failed process included;
\* totalCost never decreases; iteration goes up by exactly one at each pass
\* through the top of the loop and changes at no other step.
C29_CostAlwaysTracked ==
    /\ [][Len(outputs') = Len(outputs) + 1 =>
              /\ pc = "agent"
              /\ result' # <<>>
              /\ totalCost' = totalCost + result'[1].Cost]_vars
    /\ [][totalCost' >= totalCost /\ iteration' >= iteration]_vars
    /\ [][pc = "loop" => iteration' = iteration + 1]_vars
    /\ [][pc # "loop" => iteration' = iteration]_vars

C29_Witness ==
    /\ result # <<>>
    /\ result[1].IsError
    /\ result[1].Cost = 1
    /\ totalCost = 2
    /\ iteration = 2

\* C30: a failed branch creation ends only its iteration: the agent is not
\* invoked, totalCost and completionSignalCount keep their values, no
\* publishing step runs and control is back at the top of the loop.
C30_BranchFailureEndsIteration ==
    /\ [][(pc = "createBranch" /\ pc' # "agent") =>
            /\ pc' = "loop"
            /\ iterErr' = "failed to create branch"
            /\ NewOps = <<"CreateBranch">>
            /\ UNCHANGED <<totalCost, completionSignalCount, outputs, iteration>>]_vars
    /\ []((pc = "loop" /\ iterErr = "failed to create branch") =>
            ops = <<"CreateBranch">>)

C30_Witness ==
    /\ pc = "loop"
    /\ iterErr = "failed to create branch"
    /\ started = 2
    /\ completionSignalCount = 1
    /\ totalCost = 1
    /\ ops = <<"CreateBranch">>

\* C31: Validate rejects a configuration exactly when the prompt is empty,
\* all three limits are 0, a limit is negative, CompletionThreshold is below
\* 1 or MergeStrategy is not squash, merge or rebase; so every configuration
\* it accepts has one of HasMaxRuns, HasMaxCost, HasMaxDuration and a
\* CompletionThreshold of at least 1.
C31_ValidateRejects ==
    pc = "applied" =>
        /\ fnOut # "" <=>
               \/ config.Prompt = <<>>
               \/ /\ config.MaxRuns = 0
                  /\ FloatEq(config.MaxCost, 0)
                  /\ config.MaxDuration = 0
               \/ config.MaxRuns < 0
               \/ FloatLt(config.MaxCost, 0)
               \/ config.MaxDuration < 0
               \/ config.CompletionThreshold < 1
               \/ config.MergeStrategy \notin {"squash", "merge", "rebase"}
        /\ fnOut = "" =>
               /\ HasMaxRuns(config) \/ HasMaxCost(config) \/ HasMaxDuration(config)
               /\ config.CompletionThreshold >= 1

Index(s, substr) == IndexFrom(s, substr, 0)

\* C33: the prompt always names the iteration and quotes the goal; it has
\* the completion-signal section, quoting the phrase, exactly when the
\* phrase is not empty, and the previous-iteration section, quoting the
\* notes, exactly when the notes are not empty; the sections come in the
\* order preamble, completion contract, goal, previous-iteration context,
\* closing notes instruction; the text depends on the four arguments only.
C33_PromptSections ==
    pc = "applied" =>
        LET goal == fnIn.userPrompt
            notes == fnIn.notesContent
            phrase == fnIn.completionSignal
            preambleAt == Index(fnOut, <<PromptPreamble[1]>>)
            signalAt == Index(fnOut, <<PromptSignalLead[1]>>)
            goalAt == Index(fnOut, <<PromptGoalLead[2]>>)
            notesAt == Index(fnOut, <<PromptNotesLead[2]>>)
            closingAt == Index(fnOut, <<PromptClosing[2]>>)
        IN  /\ Contains(fnOut, <<"- You are iteration #">> \o Itoa(fnIn.iteration)
                                   \o <<"\n">>)
            /\ Contains(fnOut, PromptGoalLead \o goal \o PromptGoalClose)
            /\ signalAt >= 0 <=> phrase # <<>>
            /\ phrase # <<>> =>
                   Contains(fnOut, PromptSignalLead \o phrase \o PromptSignalClose)
            /\ notesAt >= 0 <=> notes # <<>>
            /\ notes # <<>> =>
                   Contains(fnOut, PromptNotesLead \o notes \o PromptNotesClose)
            /\ preambleAt = 0
            /\ signalAt >= 0 => preambleAt < signalAt /\ signalAt < goalAt
            /\ preambleAt < goalAt
            /\ notesAt >= 0 => goalAt < notesAt /\ notesAt < closingAt
            /\ goalAt < closingAt
            /\ closingAt + Len(PromptClosing) - 1 = Len(fnOut)
            /\ fnOut = BuildPrompt(goal, notes, phrase, fnIn.iteration)

C33_Witness ==
    /\ pc = "applied"
    /\ fnIn.iteration = 10
    /\ fnIn.notesContent = <<>>
    /\ fnIn.completionSignal = Phrase
    /\ Len(fnIn.userPrompt) = 2
    /\ ~Contains(fnOut, <<"## CONTEXT FROM PREVIOUS ITERATION\n\n">>)

\* C32: the core only reads the notes file: the file is created, written
\* or changed by no step of Run or runIteration other than the agent's run.
C32_CoreOnlyReadsNotes == [][notesFile' # notesFile => pc = "agent"]_vars

Parsed == pc = "applied" /\ "s" \in DOMAIN fnIn

Formatted == pc = "applied" /\ "d" \in DOMAIN fnIn

\* g is empty or digits followed by the unit letter.
IsOptGroup(g, unit) ==
    \/ g = <<>>
    \/ /\ Len(g) >= 2
       /\ g[Len(g)] = unit
       /\ \A i \in 1..(Len(g) - 1) : IsDigit(g[i])

\* s is an h/m/s duration: hours, minutes and seconds, each optional, in
\* that order, and at least one of them.
IsHMS(s) ==
    /\ s # <<>>
    /\ \E i \in 0..Len(s) : \E j \in i..Len(s) :
           /\ IsOptGroup(SubSeq(s, 1, i), "h")
           /\ IsOptGroup(SubSeq(s, i + 1, j), "m")
           /\ IsOptGroup(SubSeq(s, j + 1, Len(s)), "s")

\* s is a run of groups, each of them digits followed by h, m, s or ms.
RECURSIVE IsGroupSeq(_)
IsGroupSeq(s) ==
    \/ s = <<>>
    \/ \E i \in 1..Len(s) : \E u \in {<<"h">>, <<"m">>, <<"s">>, <<"m", "s">>} :
           /\ \A k \in 1..i : IsDigit(s[k])
           /\ i + Len(u) <= Len(s)
           /\ SubSeq(s, i + 1, i + Len(u)) = u
           /\ (i + Len(u) < Len(s) => IsDigit(s[i + Len(u) + 1]))
           /\ IsGroupSeq(SubSeq(s, i + Len(u) + 1, Len(s)))

\* s is a duration of package time: an optional sign, then 0 or groups.
IsGoDuration(s) ==
    LET body == IF s # <<>> /\ Head(s) \in {"-", "+"} THEN Tail(s) ELSE s
    IN  body = <<"0">> \/ (body # <<>> /\ IsGroupSeq(body))

RoundTrips ==
    Formatted =>
        /\ fnIn.d > 0 => fnOut.parsed = [d |-> fnIn.d, err |-> ""]
        /\ fnIn.d = 0 => fnOut.text = <<"0", "s">>

C35_Defaults ==
    pc = "applied" =>
        /\ fnOut.cfg.MergeStrategy = "squash"
        /\ fnOut.cfg.GitBranchPrefix = "deep-claude/"
        /\ fnOut.cfg.NotesFile = "SHARED_TASK_NOTES.md"
        /\ fnOut.cfg.CompletionThreshold = 3

\* C36: an iteration that reaches publication attempts the push at most 3
\* times in total before it gives up with a publish error.
C36_AtMostThreeAttempts == push.attempts <= 3

\* C37: WaitForChecks terminates when its queries return and time advances:
\* a pass that stays in the loop began before the deadline and moves time
\* toward the unchanged deadline; the call returns only with a final
\* snapshot, with the error of a failed poll, or with the timeout at the
\* first loop test at or after the deadline, where it polls no more; while
\* it runs one of these steps can always be taken.
C37_WaitTerminates ==
    /\ [][(pc = "wait" /\ pc' = "wait") =>
            /\ now < deadline
            /\ now' = now + 1
            /\ deadline' = deadline]_vars
    /\ [](pc = "wait" => (now <= deadline /\ deadline - now <= MaxWaitTicks))
    /\ [][(pc = "wait" /\ pc' # "wait") =>
            /\ pc' = "handle"
            /\ \/ /\ now < deadline
                  /\ waitErr' = ""
                  /\ status' # <<>>
                  /\ status'[1].HasFailedChecks \/ status'[1].AllChecksPassed
               \/ /\ now < deadline
                  /\ waitErr' \in {ChecksQueryError, ReviewQueryError}
               \/ /\ ~(now < deadline)
                  /\ waitErr' = TimeoutError]_vars
    /\ [][(pc = "wait" /\ ~(now < deadline)) =>
            /\ pc' = "handle"
            /\ waitErr' = TimeoutError
            /\ callbacks' = callbacks
            /\ now' = now]_vars
    /\ [](pc = "wait" =>
            ENABLED (WaitTimeout \/ WaitPollError \/ WaitPollTerminal \/ WaitPollSleep))

C37_Witness ==
    /\ pc = "handle"
    /\ waitErr = TimeoutError
    /\ started = 1
    /\ now = MaxWaitTicks
    /\ status # <<>>
    /\ status[1].Checks = <<"PENDING">>
    /\ status[1].ReviewDecision = ""
    /\ callbacks = 1

\* C38: whenever an iteration creates its feature branch the working copy
\* is on the base branch, whatever the outcome of the iterations before, so
\* every feature branch starts from the base line.
C38_BranchCreatedFromBase ==
    /\ [][(pc = "createBranch" /\ pc' = "agent") => curBranch = BaseBranch]_vars
    /\ [](branchedFrom \in {"", BaseBranch})

StartsWith(str, head) ==
    Len(str) >= Len(head) /\ SubSeq(str, 1, Len(head)) = head

\* C39: the branch names generated in one run are pairwise distinct
\* whatever dates and random suffixes go into them: the k-th name starts
\* with the configured prefix followed by the iteration index k, and the
\* index goes up by one from each name to the next.
C39_BranchNamesDistinct ==
    /\ [](pc = "generateBranchName" =>
            /\ \A i, j \in 1..Len(fnOut) : i # j => fnOut[i] # fnOut[j]
            /\ \A k \in 1..Len(fnOut) :
                   StartsWith(fnOut[k], fnIn.GitBranchPrefix \o <<"iteration-">>
                                            \o Itoa(k) \o <<"/">>)
            /\ Len(fnOut) = iteration)
    /\ [][pc = "generateBranchName" =>
            /\ iteration' = iteration + 1
            /\ Len(fnOut') = Len(fnOut) + 1]_vars

C39_Witness ==
    /\ pc = "generateBranchName"
    /\ Len(fnOut) = 10
    /\ \E st \in BranchStamps :
           /\ fnOut[1] = GenerateBranchName(fnIn.GitBranchPrefix, 1, st.date, st.hash)
           /\ fnOut[10] = GenerateBranchName(fnIn.GitBranchPrefix, 10, st.date, st.hash)

\* Place of an operation in the course of an iteration (0 = not one of the
\* steps the order is stated for).
OpRank(op) ==
    CASE op = "CreateBranch" -> 1
      [] op = "Run" -> 2
      [] op = "StageAll" -> 3
      [] op = "HasChanges" -> 4
      [] op = "RunCommit" -> 5
      [] op = "PushWithRetry" -> 6
      [] op = "CreatePR" -> 7
      [] op = "WaitForChecks" -> 8
      [] op \in MergeOps \cup CloseOps -> 9
      [] OTHER -> 0

IsStep(op) == OpRank(op) > 0

Steps(log) == SelectSeq(log, IsStep)

\* C40: the operations of one iteration occur in the order CreateBranch,
\* agent Run, StageAll, HasChanges, RunCommit, push, CreatePR,
\* WaitForChecks and then at most one of ClosePR and MergePR, each at most
\* once; CreatePR follows a push that succeeded, WaitForChecks a CreatePR
\* that succeeded.
C40_OperationOrder ==
    /\ [](LET steps == Steps(ops)
          IN  \A i \in 1..(Len(steps) - 1) : OpRank(steps[i]) < OpRank(steps[i + 1]))
    /\ [](\A i \in 1..Len(ops) :
            /\ ops[i] = "CreatePR" => (i > 1 /\ ops[i - 1] = "PushWithRetry")
            /\ ops[i] = "WaitForChecks" =>
                   (i > 1 /\ ops[i - 1] = "CreatePR" /\ iterErr # "failed to create PR"))
    /\ [][(\E i \in 1..Len(NewOps) : NewOps[i] = "CreatePR") =>
            /\ pc = "createPR"
            /\ push.attempts >= 1
            /\ push.err = ""]_vars
    /\ [](Cardinality({i \in 1..Len(ops) : ops[i] = "CreatePR"}) <= 1)
    /\ [](Cardinality({i \in 1..Len(ops) : ops[i] \in MergeOps \cup CloseOps}) <= 1)

C40_Witness ==
    /\ pc = "loop"
    /\ iterErr = ""
    /\ ops = <<"CreateBranch", "Run", "StageAll", "HasChanges", "RunCommit",
               "PushWithRetry", "CreatePR", "WaitForChecks", MergePR("rebase"),
               "SwitchBranch", "Pull">>

====
